---- MODULE Spec2Model ----
(***************************************************************************)
(* Model of picoclaw-dashboard: the WebSocket fan-out hub (websocket/hub)  *)
(* and the journalctl log adapter (pkg/logs/service.go).                   *)
(***************************************************************************)
EXTENDS Integers, Sequences, FiniteSets, TLC

(***************************************************************************)
(* The WebSocket hub                                                       *)
(***************************************************************************)
\* number of WebSocket connections ever opened
NClients == 2
\* number of Hub.Broadcast calls made by the publishers
MaxPub == 2
\* capacity of Client.send (256 in the source, scaled down)
SendCap == 1
\* capacity of Hub.broadcast (256 in the source, scaled down)
BroadcastCap == 1

\* the connections, numbered in the order HandleWebSocket is entered
Clients == 1..NClients

VARIABLES
    clients,      \* Hub.clients: the keys of the map
    broadcast,    \* Hub.broadcast: the buffered channel, oldest first
    send,         \* Client.send: the buffered channel of each client
    closeCount,   \* how many times close(client.send) ran
    panicked,     \* the process died of a channel panic
    pcHandle,     \* position of HandleWebSocket for each connection
    pcRead,       \* position of Client.readPump
    pcWrite,      \* position of Client.writePump
    connClosed,   \* conn.Close() was called on the connection
    received,     \* what writePump took from Client.send, in order
    nBroadcast,   \* number of Broadcast calls so far
    dropped,      \* envelopes Broadcast discarded ("dropping message")
    processed,    \* envelopes Run took from Hub.broadcast, in order
    regAt,        \* Len(processed) when Run handled the register, else -1
    remAt,        \* Len(processed) when Run removed the client, else -1
    regCallAt,    \* nBroadcast when the register send returned, else -1
    overflowed,   \* the client was removed by the default branch of the send
    setAccess,    \* the goroutines that have touched Hub.clients
    trackCalls,   \* whether regCallAt is recorded (fixed by the specification)
    lastCount,    \* what the last ClientCount call returned, else -1
    failed        \* some GetHealth call has returned an error

hubVars == <<clients, broadcast, send, closeCount, panicked, pcHandle, pcRead,
             pcWrite, connClosed, received, nBroadcast, dropped, processed,
             regAt, remAt, regCallAt, overflowed, setAccess, trackCalls,
             lastCount, failed>>

(***************************************************************************)
(* The state of the log adapter (its operators follow the hub's)           *)
(***************************************************************************)
VARIABLES
    now,         \* the wall clock
    logPc,       \* where the request is
    fFilter,     \* GetLogs: the LogFilter
    fRaw,        \* GetLogs: stdout of the journalctl run
    fLines,      \* parseLogs: the lines not yet looked at
    fCur,        \* parseLogs: currentEntry, <<>> for nil
    fEntries,    \* parseLogs: entries
    fOut,        \* GetLogs: the entries returned
    fErr,        \* GetLogs: whether an error was returned
    fStderr,     \* GetLogs: what journalctl wrote to stderr
    fErrText,    \* GetLogs: the text of the error returned, <<>> for nil
    fPrev,       \* the filter and the result of an earlier GetLogs, <<>> for none
    folSource,   \* FollowLogs: all the bytes the source writes
    folStream,   \* FollowLogs: the bytes the source writes that are not yet read
    folLines,    \* FollowLogs: the lines of the current chunk not yet looked at
    folCur,      \* FollowLogs: currentEntry, <<>> for nil
    folCalls,    \* FollowLogs: the entries passed to callback, in order
    folFilter,   \* streamLogs: the level and the search text of the request
    folSent,     \* streamLogs: the entries passed to sendEvent, in order
    folSplits,   \* number of reads so far that ended inside a line
    folHeaders,  \* number of header lines FollowLogs has parsed
    ctxDone,     \* the context of the request is cancelled
    folErr,      \* FollowLogs: what it returned ("" while running)
    procKilled,  \* cmd.Process.Kill() was called
    proc,        \* the journalctl -f process: "none", "running", "exited" or "killed"
    pipeOpen,    \* the read end of the process's stdout pipe is open
    hReturned,   \* streamLogs has returned: the response is finished
    rid,         \* which of two stream requests the variables above belong to
    other        \* the same variables of the other stream request

logVars == <<now, logPc, fFilter, fRaw, fLines, fCur, fEntries, fOut, fErr,
             fStderr, fErrText, fPrev, folSource, folFilter, folSent,
             folStream, folLines, folCur, folCalls, folSplits, folHeaders,
             ctxDone, folErr, procKilled, proc, pipeOpen, hReturned, rid,
             other>>

(***************************************************************************)
(* The state of the file handlers (their operators follow the log          *)
(* adapter's)                                                              *)
(***************************************************************************)
VARIABLES
    fsPc,        \* where the file request is
    fsBase,      \* the handlers' baseDir, made absolute
    fsLinks,     \* the symbolic links on disk: absolute path -> absolute target
    fsOp,        \* which handler serves the request
    fsReq,       \* the path parameter of the request
    fsPath,      \* what sanitizePath returned
    fsActed      \* the places on disk the handler's os calls acted on

fsVars == <<fsPc, fsBase, fsLinks, fsOp, fsReq, fsPath, fsActed>>

(***************************************************************************)
(* The state of the building of the journalctl arguments                   *)
(***************************************************************************)
VARIABLES
    argsPc,      \* whether GetLogs has built the arguments
    gSince,      \* filter.Since
    gLines,      \* filter.Lines
    gArgs        \* args, as given to exec.CommandContext

argsVars == <<argsPc, gSince, gLines, gArgs>>

(***************************************************************************)
(* The state of the service status cache                                   *)
(***************************************************************************)
VARIABLES
    svcNow,              \* the clock, in seconds
    sysVer,              \* the control actions carried out on the unit so far
    serviceStatusCache,  \* the package variable; NoStatus for ServiceResponse{}
    serviceCacheTime,    \* the package variable; ZeroTime for time.Time{}
    lastRefresh,         \* when GetServiceStatus last wrote the cache
    gPc,                 \* where each GetServiceStatus caller is
    gSample,             \* what the caller's systemctl show run told
    gRet,                \* what the caller's last call returned
    gQueried,            \* whether the caller's last call ran systemctl show
    gStartDone,          \* the value of completed when the call was entered
    ctlPc,               \* where ControlService is
    ctlRet,              \* what the last ControlService call returned
    completed            \* the ControlService calls that have returned nil

svcVars == <<svcNow, sysVer, serviceStatusCache, serviceCacheTime, lastRefresh,
             gPc, gSample, gRet, gQueried, gStartDone, ctlPc, ctlRet, completed>>

\* json.Marshal(message) of an envelope the encoder accepts
Marshal(m) == [json |-> m.seq]

\* NewHub, and no connection opened yet
HubInit ==
    /\ clients = {}
    /\ broadcast = <<>>
    /\ send = [c \in Clients |-> <<>>]
    /\ closeCount = [c \in Clients |-> 0]
    /\ panicked = FALSE
    /\ pcHandle = [c \in Clients |-> "idle"]
    /\ pcRead = [c \in Clients |-> "none"]
    /\ pcWrite = [c \in Clients |-> "none"]
    /\ connClosed = [c \in Clients |-> FALSE]
    /\ received = [c \in Clients |-> <<>>]
    /\ nBroadcast = 0
    /\ dropped = {}
    /\ processed = <<>>
    /\ regAt = [c \in Clients |-> -1]
    /\ remAt = [c \in Clients |-> -1]
    /\ regCallAt = [c \in Clients |-> -1]
    /\ overflowed = [c \in Clients |-> FALSE]
    /\ setAccess = {}
    /\ lastCount = -1
    /\ failed = FALSE

\* HandleWebSocket starting both pumps before the register send returns
UpgradePumpsFirst(c) ==
    /\ ~panicked
    /\ pcHandle[c] = "idle"
    /\ c > 1 => pcHandle[c - 1] # "idle"
    /\ pcHandle' = [pcHandle EXCEPT ![c] = "registering"]
    /\ pcRead' = [pcRead EXCEPT ![c] = "reading"]
    /\ pcWrite' = [pcWrite EXCEPT ![c] = "running"]
    /\ UNCHANGED <<clients, broadcast, send, closeCount, panicked, connClosed,
                   received, nBroadcast, dropped, processed, regAt, remAt,
                   regCallAt, overflowed, setAccess, trackCalls, lastCount,
                   failed, logVars, fsVars, argsVars, svcVars>>

\* HandleWebSocket: the upgrade succeeded, the client is built and the
\* handler blocks on hub.register <- client
Upgrade(c) ==
    /\ ~panicked
    /\ pcHandle[c] = "idle"
    /\ c > 1 => pcHandle[c - 1] # "idle"
    /\ pcHandle' = [pcHandle EXCEPT ![c] = "registering"]
    /\ UNCHANGED <<clients, broadcast, send, closeCount, panicked, pcRead,
                   pcWrite, connClosed, received, nBroadcast, dropped,
                   processed, regAt, remAt, regCallAt, overflowed, setAccess,
                   trackCalls, lastCount, failed, logVars, fsVars, argsVars,
                   svcVars>>

\* HandleWebSocket: upgrader.Upgrade failed for a request; the handler
\* returns before a client is built, and nothing of the hub changes
UpgradeFail(c) ==
    /\ ~panicked
    /\ pcHandle[c] = "idle"
    /\ c > 1 => pcHandle[c - 1] # "idle"
    /\ UNCHANGED <<clients, broadcast, send, closeCount, panicked, pcHandle,
                   pcRead, pcWrite, connClosed, received, nBroadcast, dropped,
                   processed, regAt, remAt, regCallAt, overflowed, setAccess,
                   trackCalls, lastCount, failed, logVars, fsVars, argsVars,
                   svcVars>>

\* Run, case client := <-h.register; the send in HandleWebSocket returns and
\* both pumps are started
HubRegister(c) ==
    /\ ~panicked
    /\ pcHandle[c] = "registering"
    /\ clients' = clients \cup {c}
    /\ pcHandle' = [pcHandle EXCEPT ![c] = "done"]
    /\ pcRead' = [pcRead EXCEPT ![c] = "reading"]
    /\ pcWrite' = [pcWrite EXCEPT ![c] = "running"]
    /\ regAt' = [regAt EXCEPT ![c] = Len(processed)]
    /\ regCallAt' = IF trackCalls THEN [regCallAt EXCEPT ![c] = nBroadcast]
                    ELSE regCallAt
    /\ setAccess' = setAccess \cup {"Run"}
    /\ UNCHANGED <<broadcast, send, closeCount, panicked, connClosed, received,
                   nBroadcast, dropped, processed, remAt, overflowed,
                   trackCalls, lastCount, failed, logVars, fsVars, argsVars,
                   svcVars>>

\* readPump: ReadMessage returned an error (the peer went away, or the
\* connection was closed by writePump); the deferred function blocks on
\* c.hub.unregister <- c
ReadError(c) ==
    /\ ~panicked
    /\ pcRead[c] = "reading"
    /\ pcRead' = [pcRead EXCEPT ![c] = "unregistering"]
    /\ UNCHANGED <<clients, broadcast, send, closeCount, panicked, pcHandle,
                   pcWrite, connClosed, received, nBroadcast, dropped,
                   processed, regAt, remAt, regCallAt, overflowed, setAccess,
                   trackCalls, lastCount, failed, logVars, fsVars, argsVars,
                   svcVars>>

HubUnregisterUnchecked(c) ==
    /\ ~panicked
    /\ pcRead[c] = "unregistering"
    /\ pcRead' = [pcRead EXCEPT ![c] = "done"]
    /\ connClosed' = [connClosed EXCEPT ![c] = TRUE]
    /\ setAccess' = setAccess \cup {"Run"}
    /\ clients' = clients \ {c}
    /\ closeCount' = [closeCount EXCEPT ![c] = @ + 1]
    /\ panicked' = (closeCount[c] > 0)
    /\ remAt' = [remAt EXCEPT ![c] = Len(processed)]
    /\ UNCHANGED <<broadcast, send, pcHandle, pcWrite, received, nBroadcast,
                   dropped, processed, regAt, regCallAt, overflowed,
                   trackCalls, lastCount, failed, logVars, fsVars, argsVars,
                   svcVars>>

\* the unregister case closing the outbox and leaving the client in the map
HubUnregisterKeepsClient(c) ==
    /\ ~panicked
    /\ pcRead[c] = "unregistering"
    /\ pcRead' = [pcRead EXCEPT ![c] = "done"]
    /\ connClosed' = [connClosed EXCEPT ![c] = TRUE]
    /\ setAccess' = setAccess \cup {"Run"}
    /\ IF c \in clients
       THEN /\ closeCount' = [closeCount EXCEPT ![c] = @ + 1]
            /\ panicked' = (closeCount[c] > 0)
            /\ remAt' = [remAt EXCEPT ![c] = Len(processed)]
       ELSE UNCHANGED <<closeCount, panicked, remAt>>
    /\ UNCHANGED <<clients, broadcast, send, pcHandle, pcWrite, received,
                   nBroadcast, dropped, processed, regAt, regCallAt,
                   overflowed, trackCalls, lastCount, failed, logVars, fsVars,
                   argsVars, svcVars>>

\* Run, case client := <-h.unregister; the send in readPump returns and the
\* deferred function goes on to c.conn.Close(). (The close is taken in the
\* same step: a write of writePump between the two commutes with this step.)
HubUnregister(c) ==
    /\ ~panicked
    /\ pcRead[c] = "unregistering"
    /\ pcRead' = [pcRead EXCEPT ![c] = "done"]
    /\ connClosed' = [connClosed EXCEPT ![c] = TRUE]
    /\ setAccess' = setAccess \cup {"Run"}
    /\ IF c \in clients
       THEN /\ clients' = clients \ {c}
            /\ closeCount' = [closeCount EXCEPT ![c] = @ + 1]
            /\ panicked' = (closeCount[c] > 0)
            /\ remAt' = [remAt EXCEPT ![c] = Len(processed)]
       ELSE UNCHANGED <<clients, closeCount, panicked, remAt>>
    /\ UNCHANGED <<broadcast, send, pcHandle, pcWrite, received, nBroadcast,
                   dropped, processed, regAt, regCallAt, overflowed,
                   trackCalls, lastCount, failed, logVars, fsVars, argsVars,
                   svcVars>>

\* the loop of case message := <-h.broadcast for the envelope m, with rest
\* left in the channel: every client of targets is offered json.Marshal(m);
\* one whose outbox already holds fullAt messages takes the default branch
HubFanout(m, rest, targets, fullAt) ==
    /\ ~panicked
    /\ broadcast' = rest
    /\ processed' = Append(processed, m)
    /\ setAccess' = setAccess \cup {"Run"}
    /\ IF m.ok
       THEN /\ send' = [c \in Clients |->
                          IF c \in targets /\ Len(send[c]) < fullAt
                          THEN Append(send[c], Marshal(m)) ELSE send[c]]
            /\ clients' = {c \in clients : ~(c \in targets /\ Len(send[c]) >= fullAt)}
            /\ closeCount' = [c \in Clients |->
                          IF c \in targets /\ Len(send[c]) >= fullAt
                          THEN closeCount[c] + 1 ELSE closeCount[c]]
            /\ panicked' = \E c \in targets : closeCount[c] > 0
            /\ overflowed' = [c \in Clients |->
                          overflowed[c] \/ (c \in targets /\ Len(send[c]) >= fullAt)]
            /\ remAt' = [c \in Clients |->
                          IF c \in targets /\ Len(send[c]) >= fullAt
                          THEN Len(processed) + 1 ELSE remAt[c]]
       ELSE UNCHANGED <<send, clients, closeCount, panicked, overflowed, remAt>>
    /\ UNCHANGED <<pcHandle, pcRead, pcWrite, connClosed, received, nBroadcast,
                   dropped, regAt, regCallAt, trackCalls, lastCount, failed,
                   logVars, fsVars, argsVars, svcVars>>

HubBroadcastPeek ==
    /\ broadcast # <<>>
    /\ HubFanout(Head(broadcast), broadcast, clients, SendCap)

HubBroadcastFirstOnly ==
    /\ broadcast # <<>>
    /\ HubFanout(Head(broadcast), Tail(broadcast),
                 IF clients = {} THEN {}
                 ELSE {CHOOSE c \in clients : \A d \in clients : c <= d},
                 SendCap)

HubBroadcastAbortOnOverflow ==
    /\ broadcast # <<>>
    /\ HubFanout(Head(broadcast), Tail(broadcast),
                 IF \E c \in clients : Len(send[c]) >= SendCap
                 THEN {c \in clients : Len(send[c]) >= SendCap}
                 ELSE clients,
                 SendCap)

HubBroadcastOffByOne ==
    /\ broadcast # <<>>
    /\ HubFanout(Head(broadcast), Tail(broadcast), clients, SendCap + 1)

\* the fan-out with a plain send to each outbox: it waits for room in every
\* one of them
HubBroadcastBlocking ==
    /\ broadcast # <<>>
    /\ \A c \in clients : Len(send[c]) < SendCap
    /\ HubFanout(Head(broadcast), Tail(broadcast), clients, SendCap)

\* Run, case message := <-h.broadcast
HubBroadcast ==
    /\ broadcast # <<>>
    /\ HubFanout(Head(broadcast), Tail(broadcast), clients, SendCap)

BroadcastDropOldest(ok) ==
    /\ ~panicked
    /\ nBroadcast < MaxPub
    /\ nBroadcast' = nBroadcast + 1
    /\ IF Len(broadcast) < BroadcastCap
       THEN /\ broadcast' = Append(broadcast, [seq |-> nBroadcast + 1, ok |-> ok])
            /\ UNCHANGED dropped
       ELSE /\ broadcast' = Append(Tail(broadcast), [seq |-> nBroadcast + 1, ok |-> ok])
            /\ dropped' = dropped \cup {Head(broadcast).seq}
    /\ UNCHANGED <<clients, send, closeCount, panicked, pcHandle, pcRead,
                   pcWrite, connClosed, received, processed, regAt, remAt,
                   regCallAt, overflowed, setAccess, trackCalls, lastCount,
                   failed, logVars, fsVars, argsVars, svcVars>>

BroadcastReplaceNewest(ok) ==
    /\ ~panicked
    /\ nBroadcast < MaxPub
    /\ nBroadcast' = nBroadcast + 1
    /\ IF Len(broadcast) < BroadcastCap
       THEN /\ broadcast' = Append(broadcast, [seq |-> nBroadcast + 1, ok |-> ok])
            /\ UNCHANGED dropped
       ELSE /\ broadcast' = [broadcast EXCEPT ![Len(broadcast)] =
                                [seq |-> nBroadcast + 1, ok |-> ok]]
            /\ dropped' = dropped \cup {broadcast[Len(broadcast)].seq}
    /\ UNCHANGED <<clients, send, closeCount, panicked, pcHandle, pcRead,
                   pcWrite, connClosed, received, processed, regAt, remAt,
                   regCallAt, overflowed, setAccess, trackCalls, lastCount,
                   failed, logVars, fsVars, argsVars, svcVars>>

\* Hub.Broadcast(message): the message is the (nBroadcast+1)-th one published;
\* ok tells whether json.Marshal accepts it
Broadcast(ok) ==
    /\ ~panicked
    /\ nBroadcast < MaxPub
    /\ nBroadcast' = nBroadcast + 1
    /\ IF Len(broadcast) < BroadcastCap
       THEN /\ broadcast' = Append(broadcast, [seq |-> nBroadcast + 1, ok |-> ok])
            /\ UNCHANGED dropped
       ELSE /\ dropped' = dropped \cup {nBroadcast + 1}
            /\ UNCHANGED broadcast
    /\ UNCHANGED <<clients, send, closeCount, panicked, pcHandle, pcRead,
                   pcWrite, connClosed, received, processed, regAt, remAt,
                   regCallAt, overflowed, setAccess, trackCalls, lastCount,
                   failed, logVars, fsVars, argsVars, svcVars>>

\* writePump: case message, ok := <-c.send with a message, and WriteMessage
\* succeeds
WritePumpWrite(c) ==
    /\ ~panicked
    /\ pcWrite[c] = "running"
    /\ send[c] # <<>>
    /\ ~connClosed[c]
    /\ send' = [send EXCEPT ![c] = Tail(@)]
    /\ received' = [received EXCEPT ![c] = Append(@, Head(send[c]))]
    /\ UNCHANGED <<clients, broadcast, closeCount, panicked, pcHandle, pcRead,
                   pcWrite, connClosed, nBroadcast, dropped, processed, regAt,
                   remAt, regCallAt, overflowed, setAccess, trackCalls,
                   lastCount, failed, logVars, fsVars, argsVars, svcVars>>

\* a write error after which the connection stays open
WritePumpWriteErrKeepsConn(c) ==
    /\ ~panicked
    /\ pcWrite[c] = "running"
    /\ send[c] # <<>>
    /\ send' = [send EXCEPT ![c] = Tail(@)]
    /\ received' = [received EXCEPT ![c] = Append(@, Head(send[c]))]
    /\ pcWrite' = [pcWrite EXCEPT ![c] = "failed"]
    /\ UNCHANGED <<clients, broadcast, closeCount, panicked, pcHandle, pcRead,
                   connClosed, nBroadcast, dropped, processed, regAt, remAt,
                   regCallAt, overflowed, setAccess, trackCalls, lastCount,
                   failed, logVars, fsVars, argsVars, svcVars>>

\* writePump: a message is taken from c.send, WriteMessage fails (always so
\* on a closed connection); the pump returns and its deferred conn.Close runs
WritePumpWriteErr(c) ==
    /\ ~panicked
    /\ pcWrite[c] = "running"
    /\ send[c] # <<>>
    /\ send' = [send EXCEPT ![c] = Tail(@)]
    /\ received' = [received EXCEPT ![c] = Append(@, Head(send[c]))]
    /\ pcWrite' = [pcWrite EXCEPT ![c] = "failed"]
    /\ connClosed' = [connClosed EXCEPT ![c] = TRUE]
    /\ UNCHANGED <<clients, broadcast, closeCount, panicked, pcHandle, pcRead,
                   nBroadcast, dropped, processed, regAt, remAt, regCallAt,
                   overflowed, setAccess, trackCalls, lastCount, failed,
                   logVars, fsVars, argsVars, svcVars>>

\* writePump: c.send is closed and drained (ok is false); the close message
\* is written and the pump returns, closing the connection
WritePumpClosed(c) ==
    /\ ~panicked
    /\ pcWrite[c] = "running"
    /\ send[c] = <<>>
    /\ closeCount[c] > 0
    /\ pcWrite' = [pcWrite EXCEPT ![c] = "done"]
    /\ connClosed' = [connClosed EXCEPT ![c] = TRUE]
    /\ UNCHANGED <<clients, broadcast, send, closeCount, panicked, pcHandle,
                   pcRead, received, nBroadcast, dropped, processed, regAt,
                   remAt, regCallAt, overflowed, setAccess, trackCalls,
                   lastCount, failed, logVars, fsVars, argsVars, svcVars>>

\* Hub.ClientCount(): len(h.clients) is read by the calling goroutine, with
\* no synchronisation with Run: the read races with Run's writes of the map,
\* so the value returned is any count
\* GetHealth returned an error: nothing is published
SampleFailed ==
    /\ ~panicked
    /\ failed' = TRUE
    /\ UNCHANGED <<clients, broadcast, send, closeCount, panicked, pcHandle,
                   pcRead, pcWrite, connClosed, received, nBroadcast, dropped,
                   processed, regAt, remAt, regCallAt, overflowed, setAccess,
                   trackCalls, lastCount, logVars, fsVars, argsVars, svcVars>>

\* SetupRoutes, the handler of /api/health: GetHealth is called; on an error
\* the answer is 500 and nothing else happens, else the snapshot goes to
\* hub.Broadcast and is the answer; ok tells whether the snapshot can be
\* marshalled
HealthRequest(sampled, ok) ==
    IF sampled THEN Broadcast(ok) ELSE SampleFailed

\* the loop over ticker.C ends at the first error of GetHealth
TickStopsAfterFailure(sampled, ok) ==
    /\ ~failed
    /\ IF sampled THEN Broadcast(ok) ELSE SampleFailed

\* main, the loop over ticker.C: GetHealth is called; on an error it is
\* logged and the loop goes on, else the snapshot goes to hub.Broadcast
Tick(sampled, ok) ==
    IF sampled THEN Broadcast(ok) ELSE SampleFailed

ClientCount ==
    /\ ~panicked
    /\ setAccess' = setAccess \cup {"ClientCount"}
    /\ lastCount' \in 0..NClients
    /\ UNCHANGED <<clients, broadcast, send, closeCount, panicked, pcHandle,
                   pcRead, pcWrite, connClosed, received, nBroadcast, dropped,
                   processed, regAt, remAt, regCallAt, overflowed, trackCalls,
                   failed, logVars, fsVars, argsVars, svcVars>>

\* the hub with clients whose connections do not fail, published to by the
\* health handler and the ticker of main
HealthNext ==
    \/ \E c \in Clients : Upgrade(c)
    \/ \E c \in Clients : HubRegister(c)
    \/ HubBroadcast
    \/ \E sampled, ok \in BOOLEAN : HealthRequest(sampled, ok)
    \/ \E sampled, ok \in BOOLEAN : Tick(sampled, ok)
    \/ \E c \in Clients : WritePumpWrite(c)
    \/ \E c \in Clients : WritePumpClosed(c)

HubNext ==
    \/ \E c \in Clients : Upgrade(c)
    \/ \E c \in Clients : UpgradeFail(c)
    \/ \E c \in Clients : HubRegister(c)
    \/ \E c \in Clients : ReadError(c)
    \/ \E c \in Clients : HubUnregister(c)
    \/ HubBroadcast
    \/ \E ok \in BOOLEAN : Broadcast(ok)
    \/ \E c \in Clients : WritePumpWrite(c)
    \/ \E c \in Clients : WritePumpWriteErr(c)
    \/ \E c \in Clients : WritePumpClosed(c)

(***************************************************************************)
(* The log adapter: strings                                                *)
(*                                                                         *)
(* A string is a sequence of characters. The 19 characters of a date and   *)
(* time, "2024/01/01 10:00:00", are one token: T1 and T2 are valid times   *)
(* (T1 before T2), TX has the digits and separators of the pattern but is   *)
(* no calendar time ("2024/13/45 99:99:99").                               *)
(***************************************************************************)
\* number of raw lines in the output of one journalctl run (bounded fetch)
MaxLines == 3
\* number of raw lines the followed journalctl writes
MaxFollowLines == 2
\* number of stdout.Read calls that end in the middle of a line
MaxSplits == 1
\* number of times the wall clock advances between two time.Now() calls
ClockTicks == 1

TsTokens == {"T1", "T2", "TX"}

Upper == {"A", "B", "C", "D", "E", "F", "G", "H", "I", "J", "K", "L", "M", "N",
          "O", "P", "Q", "R", "S", "T", "U", "V", "W", "X", "Y", "Z"}

Whitespace == {" ", "\t", "\r", "\n"}

\* strings.ToLower on one character
LowerChar(ch) ==
    CASE ch = "A" -> "a" [] ch = "B" -> "b" [] ch = "C" -> "c" [] ch = "D" -> "d"
      [] ch = "E" -> "e" [] ch = "F" -> "f" [] ch = "G" -> "g" [] ch = "H" -> "h"
      [] ch = "I" -> "i" [] ch = "J" -> "j" [] ch = "K" -> "k" [] ch = "L" -> "l"
      [] ch = "M" -> "m" [] ch = "N" -> "n" [] ch = "O" -> "o" [] ch = "P" -> "p"
      [] ch = "Q" -> "q" [] ch = "R" -> "r" [] ch = "S" -> "s" [] ch = "T" -> "t"
      [] ch = "U" -> "u" [] ch = "V" -> "v" [] ch = "W" -> "w" [] ch = "X" -> "x"
      [] ch = "Y" -> "y" [] ch = "Z" -> "z"
      [] OTHER -> ch

\* strings.ToLower
ToLower(s) == [i \in 1..Len(s) |-> LowerChar(s[i])]

\* strings.Contains
Contains(s, sub) ==
    \E i \in 0..(Len(s) - Len(sub)) : SubSeq(s, i + 1, i + Len(sub)) = sub

\* strings.TrimSpace
RECURSIVE TrimLeft(_)
TrimLeft(s) ==
    IF s # <<>> /\ Head(s) \in Whitespace THEN TrimLeft(Tail(s)) ELSE s

RECURSIVE TrimRight(_)
TrimRight(s) ==
    IF s # <<>> /\ s[Len(s)] \in Whitespace
    THEN TrimRight(SubSeq(s, 1, Len(s) - 1)) ELSE s

TrimSpace(s) == TrimRight(TrimLeft(s))

\* strings.Split(s, "\n"): the pieces between the newlines, empty ones included
RECURSIVE SplitFrom(_, _, _)
SplitFrom(s, i, piece) ==
    IF i > Len(s) THEN <<piece>>
    ELSE IF s[i] = "\n" THEN <<piece>> \o SplitFrom(s, i + 1, <<>>)
    ELSE SplitFrom(s, i + 1, Append(piece, s[i]))

SplitLines(s) == SplitFrom(s, 1, <<>>)

\* the raw text of a sequence of lines, each ended by a newline
RECURSIVE Unlines(_)
Unlines(ls) ==
    IF ls = <<>> THEN <<>> ELSE Head(ls) \o <<"\n">> \o Unlines(Tail(ls))

\* the raw text of a sequence of lines, a newline between two of them
JoinLines(ls) ==
    IF ls = <<>> THEN <<>> ELSE SubSeq(Unlines(ls), 1, Len(Unlines(ls)) - 1)

\* logPattern, from the "]" at k that closes the first bracket group: the
\* index of the "]" that closes the level group, 0 when "\] \[([A-Z]+)\] "
\* does not match there
LevelClose(line, k) ==
    IF k + 2 <= Len(line) /\ line[k] = "]" /\ line[k + 1] = " " /\ line[k + 2] = "["
    THEN LET ms == {m \in (k + 4)..(Len(line) - 1) :
                       /\ line[m] = "]"
                       /\ line[m + 1] = " "
                       /\ \A p \in (k + 3)..(m - 1) : line[p] \in Upper}
         IN IF ms = {} THEN 0 ELSE CHOOSE m \in ms : TRUE
    ELSE 0

\* logPattern.FindStringSubmatch(line): <<>> for nil, else the one match
\* with its three groups; the lazy ".*?" takes the first "]" that lets the
\* rest match
FindHeader(line) ==
    IF Len(line) >= 3 /\ line[1] \in TsTokens /\ line[2] = " " /\ line[3] = "["
    THEN LET ks == {k \in 4..Len(line) : LevelClose(line, k) # 0}
         IN IF ks = {} THEN <<>>
            ELSE LET k == CHOOSE x \in ks : \A y \in ks : x <= y
                     m == LevelClose(line, k)
                 IN <<[ts |-> line[1],
                       level |-> SubSeq(line, k + 3, m - 1),
                       text |-> SubSeq(line, m + 2, Len(line))]>>
    ELSE <<>>

ParseTimeFails(ts) == <<>>

\* time.Parse("2006/01/02 15:04:05", ts): <<>> for an error
ParseTime(ts) ==
    CASE ts = "T1" -> <<1>>
      [] ts = "T2" -> <<2>>
      [] OTHER -> <<>>

\* the LogEntry of a matched header, the zero time left in it when the text
\* of the timestamp does not parse
EntryOfZeroTime(match, t) ==
    [Timestamp |-> IF ParseTime(match.ts) = <<>> THEN 0 ELSE ParseTime(match.ts)[1],
     Level |-> match.level,
     Message |-> match.text]

\* the LogEntry of a matched header; t is what time.Now() returns
EntryOf(match, t) ==
    [Timestamp |-> IF ParseTime(match.ts) = <<>> THEN t ELSE ParseTime(match.ts)[1],
     Level |-> match.level,
     Message |-> match.text]

\* Service.parseLogLine: <<>> for nil
parseLogLine(line, t) ==
    IF FindHeader(line) = <<>> THEN <<>> ELSE <<EntryOf(FindHeader(line)[1], t)>>

AppendLineAfterSpace(message, line) == message \o <<" ">> \o line

\* currentEntry.Message += "\n" + line
AppendLine(message, line) == message \o <<"\n">> \o line

PassesOnFirstLine(e, filter) ==
    /\ filter.Level = <<>> \/ e.Level = filter.Level
    /\ \/ filter.Search = <<>>
       \/ Contains(ToLower(SplitLines(e.Message)[1]), ToLower(filter.Search))
       \/ Contains(ToLower(e.Level), ToLower(filter.Search))

\* the conditions of parseLogs with the levels compared without regard to case
PassesLevelFolded(e, filter) ==
    /\ filter.Level = <<>> \/ ToLower(e.Level) = ToLower(filter.Level)
    /\ \/ filter.Search = <<>>
       \/ Contains(ToLower(e.Message), ToLower(filter.Search))
       \/ Contains(ToLower(e.Level), ToLower(filter.Search))

\* the level and search conditions of parseLogs
Passes(e, filter) ==
    /\ filter.Level = <<>> \/ e.Level = filter.Level
    /\ \/ filter.Search = <<>>
       \/ Contains(ToLower(e.Message), ToLower(filter.Search))
       \/ Contains(ToLower(e.Level), ToLower(filter.Search))

SortSkipped(es) == es

\* the exchange sort that ends parseLogs: for i, for j > i, swap when
\* entries[i].Timestamp.After(entries[j].Timestamp)
RECURSIVE SortFrom(_, _, _)
SortFrom(es, i, j) ==
    IF i > Len(es) THEN es
    ELSE IF j > Len(es) THEN SortFrom(es, i + 1, i + 2)
    ELSE IF es[i].Timestamp > es[j].Timestamp
         THEN SortFrom([es EXCEPT ![i] = es[j], ![j] = es[i]], i, j + 1)
         ELSE SortFrom(es, i, j + 1)

SortEntries(es) == SortFrom(es, 1, 2)

(***************************************************************************)
(* The raw lines the source is made to write                               *)
(***************************************************************************)
\* 2024/01/01 10:00:00 [x] [ERROR] boom
LineError1 == <<"T1", " ", "[", "x", "]", " ", "[", "E", "R", "R", "O", "R", "]", " ", "b", "o", "o", "m">>
\* 2024/01/01 10:00:01 [x] [INFO] ok
LineInfo2 == <<"T2", " ", "[", "x", "]", " ", "[", "I", "N", "F", "O", "]", " ", "o", "k">>
\* 2024/01/01 10:00:00 [x] [ERROR] Ok
LineError1b == <<"T1", " ", "[", "x", "]", " ", "[", "E", "R", "R", "O", "R", "]", " ", "O", "k">>
\* at f
LineCont == <<"a", "t", " ", "f">>
\* <TAB>at g
LineIndented == <<"\t", "a", "t", " ", "g">>
\* the empty line
LineBlank == <<>>
\* 2024/13/45 99:99:99 [x] [ERROR] w
LineBadTime == <<"TX", " ", "[", "x", "]", " ", "[", "E", "R", "R", "O", "R", "]", " ", "w">>
\* 2024/01/01 10:00:00 [x] [INFO] up
LineInfo1 == <<"T1", " ", "[", "x", "]", " ", "[", "I", "N", "F", "O", "]", " ", "u", "p">>
\* 2024/01/01 10:00:01 [x] [INFO] and a trailing space
LineNoText == <<"T2", " ", "[", "x", "]", " ", "[", "I", "N", "F", "O", "]", " ">>
\* a header after a leading space, with a level outside the usual five
LinePadded == <<" ">> \o <<"T2", " ", "[", "x", "]", " ", "[", "T", "R", "A", "C", "E", "]", " ", "o", "k">>
\* 2024/01/01 10:00:01 [x] [TRACE] ok
LineTrace == <<"T2", " ", "[", "x", "]", " ", "[", "T", "R", "A", "C", "E", "]", " ", "o", "k">>
\* 2024/01/01 10:00:00 [x] [info] up
LineLower == <<"T1", " ", "[", "x", "]", " ", "[", "i", "n", "f", "o", "]", " ", "u", "p">>

RawLines == {LineError1, LineInfo2, LineError1b, LineCont, LineIndented,
             LineBlank, LineBadTime, LineNoText, LinePadded}

FollowRawLines == {LineError1, LineError1b, LineInfo1, LineCont, LineBadTime}

RECURSIVE SeqsUpTo(_, _)
SeqsUpTo(S, n) ==
    IF n = 0 THEN {<<>>}
    ELSE SeqsUpTo(S, n - 1) \cup
         {Append(s, x) : s \in {t \in SeqsUpTo(S, n - 1) : Len(t) = n - 1}, x \in S}

Str_INFO == <<"I", "N", "F", "O">>
Str_ok == <<"o", "k">>
Str_err == <<"e", "r", "r">>
Str_at == <<"a", "t">>

\* the level and search parameters of a request
Filters ==
    {[Level |-> <<>>, Search |-> <<>>],
     [Level |-> Str_INFO, Search |-> <<>>],
     [Level |-> <<>>, Search |-> Str_ok],
     [Level |-> <<>>, Search |-> Str_err],
     [Level |-> <<>>, Search |-> Str_at],
     [Level |-> Str_INFO, Search |-> Str_ok]}

(***************************************************************************)
(* The log adapter: one request, a bounded fetch or a live follow          *)
(***************************************************************************)
NoFilter == [Level |-> <<>>, Search |-> <<>>]

\* what a stream request that has not come in holds: the values its own
\* variables start with
NoRequest ==
    [logPc |-> "idle", folSource |-> <<>>, folFilter |-> NoFilter,
     folStream |-> <<>>, folLines |-> <<>>, folCur |-> <<>>, folCalls |-> <<>>,
     folSent |-> <<>>, folSplits |-> 0, folHeaders |-> 0, ctxDone |-> FALSE,
     folErr |-> "", procKilled |-> FALSE, proc |-> "none", pipeOpen |-> FALSE,
     hReturned |-> FALSE]

LogInit ==
    /\ now = 3
    /\ logPc = "idle"
    /\ fFilter = NoFilter
    /\ fRaw = <<>>
    /\ fLines = <<>>
    /\ fCur = <<>>
    /\ fEntries = <<>>
    /\ fOut = <<>>
    /\ fErr = FALSE
    /\ fStderr = <<>>
    /\ fErrText = <<>>
    /\ fPrev = <<>>
    /\ folSource = <<>>
    /\ folStream = <<>>
    /\ folLines = <<>>
    /\ folCur = <<>>
    /\ folCalls = <<>>
    /\ folFilter = NoFilter
    /\ folSent = <<>>
    /\ folSplits = 0
    /\ folHeaders = 0
    /\ ctxDone = FALSE
    /\ folErr = ""
    /\ procKilled = FALSE
    /\ proc = "none"
    /\ pipeOpen = FALSE
    /\ hReturned = FALSE
    /\ rid = 1
    /\ other = NoRequest

\* GetLogs: journalctl ran and wrote fRaw; parseLogs splits it into lines
GetLogs(filter) ==
    /\ logPc = "idle"
    /\ logPc' = "parse"
    /\ fFilter' = filter
    /\ \E ls \in SeqsUpTo(RawLines, MaxLines) :
          /\ fRaw' = JoinLines(ls)
          /\ fLines' = SplitLines(JoinLines(ls))
    /\ UNCHANGED <<now, fCur, fEntries, fOut, fErr, fStderr, fErrText, fPrev,
                   folSource, folFilter, folStream, folLines, folCur, folCalls,
                   folSent, folSplits, folHeaders, ctxDone, folErr, procKilled,
                   proc, pipeOpen, hReturned, rid, other, hubVars, fsVars,
                   argsVars, svcVars>>

\* the errors of cmd.Run(): the command did not start, it exited with a
\* status other than 0, it was killed when the context ended
RunErrors == {"exec: not started", "exit status 1", "signal: killed"}

Str_NoEntries == <<"N", "o", " ", "e", "n", "t", "r", "i", "e", "s">>

\* what journalctl writes to stderr
Diagnostics == {<<>>, Str_NoEntries}

\* fmt.Errorf("journalctl error: %w: %s", err, stderr.String())
Errorf(err, stderr) == <<"journalctl error: ", err, ": ">> \o stderr

GetLogsFailParsing(filter) ==
    /\ logPc = "idle"
    /\ logPc' = "parse"
    /\ fFilter' = filter
    /\ fErr' = TRUE
    /\ \E err \in RunErrors, ls \in SeqsUpTo(RawLines, 1), diag \in Diagnostics :
          /\ err = "exec: not started" => ls = <<>> /\ diag = <<>>
          /\ fRaw' = JoinLines(ls)
          /\ fLines' = SplitLines(JoinLines(ls))
          /\ fStderr' = diag
          /\ fErrText' = Errorf(err, diag)
    /\ UNCHANGED <<now, fCur, fEntries, fOut, fPrev, folSource, folFilter,
                   folStream, folLines, folCur, folCalls, folSent, folSplits,
                   folHeaders, ctxDone, folErr, procKilled, proc, pipeOpen,
                   hReturned, rid, other, hubVars, fsVars, argsVars, svcVars>>

\* GetLogs: cmd.Run() returned an error, journalctl having written fRaw to
\* stdout and fStderr to stderr; nil and the error are returned
GetLogsFail(filter) ==
    /\ logPc = "idle"
    /\ logPc' = "fetchFailed"
    /\ fFilter' = filter
    /\ fErr' = TRUE
    /\ \E err \in RunErrors, ls \in SeqsUpTo(RawLines, 1), diag \in Diagnostics :
          /\ err = "exec: not started" => ls = <<>> /\ diag = <<>>
          /\ fRaw' = JoinLines(ls)
          /\ fStderr' = diag
          /\ fErrText' = Errorf(err, diag)
    /\ UNCHANGED <<now, fLines, fCur, fEntries, fOut, fPrev, folSource,
                   folFilter, folStream, folLines, folCur, folCalls, folSent,
                   folSplits, folHeaders, ctxDone, folErr, procKilled, proc,
                   pipeOpen, hReturned, rid, other, hubVars, fsVars, argsVars,
                   svcVars>>

ParseLineStrayAsInfo(t) ==
    /\ logPc = "parse"
    /\ fLines # <<>>
    /\ fLines' = Tail(fLines)
    /\ LET line == TrimSpace(Head(fLines))
           match == FindHeader(line)
       IN IF line = <<>>
          THEN UNCHANGED <<fCur, fEntries, now>>
          ELSE IF match = <<>>
          THEN /\ fCur' = IF fCur # <<>>
                          THEN <<[fCur[1] EXCEPT !.Message = AppendLine(@, line)]>>
                          ELSE <<[Timestamp |-> t, Level |-> Str_INFO, Message |-> line]>>
               /\ now' = IF fCur # <<>> THEN now ELSE t
               /\ UNCHANGED fEntries
          ELSE /\ fEntries' = IF fCur # <<>> /\ Passes(fCur[1], fFilter)
                              THEN Append(fEntries, fCur[1]) ELSE fEntries
               /\ fCur' = <<EntryOf(match[1], t)>>
               /\ now' = IF ParseTime(match[1].ts) = <<>> THEN t ELSE now
    /\ UNCHANGED <<logPc, fFilter, fRaw, fOut, fErr, fStderr, fErrText, fPrev,
                   folSource, folFilter, folStream, folLines, folCur, folCalls,
                   folSent, folSplits, folHeaders, ctxDone, folErr, procKilled,
                   proc, pipeOpen, hReturned, rid, other, hubVars, fsVars,
                   argsVars, svcVars>>

\* parseLogs, lines 96-139: one turn of the loop over the lines of the output;
\* t is the time.Now() taken when the text of the timestamp does not parse
ParseLine(t) ==
    /\ logPc = "parse"
    /\ fLines # <<>>
    /\ fLines' = Tail(fLines)
    /\ LET line == TrimSpace(Head(fLines))
           match == FindHeader(line)
       IN IF line = <<>>
          THEN UNCHANGED <<fCur, fEntries, now>>
          ELSE IF match = <<>>
          THEN /\ fCur' = IF fCur # <<>>
                          THEN <<[fCur[1] EXCEPT !.Message = AppendLine(@, line)]>>
                          ELSE fCur
               /\ UNCHANGED <<fEntries, now>>
          ELSE /\ fEntries' = IF fCur # <<>> /\ Passes(fCur[1], fFilter)
                              THEN Append(fEntries, fCur[1]) ELSE fEntries
               /\ fCur' = <<EntryOf(match[1], t)>>
               /\ now' = IF ParseTime(match[1].ts) = <<>> THEN t ELSE now
    /\ UNCHANGED <<logPc, fFilter, fRaw, fOut, fErr, fStderr, fErrText, fPrev,
                   folSource, folFilter, folStream, folLines, folCur, folCalls,
                   folSent, folSplits, folHeaders, ctxDone, folErr, procKilled,
                   proc, pipeOpen, hReturned, rid, other, hubVars, fsVars,
                   argsVars, svcVars>>

\* parseLogs, lines 141-162: the last entry is kept if it passes, the entries
\* are sorted and returned by GetLogs
ParseFinish ==
    /\ logPc = "parse"
    /\ fLines = <<>>
    /\ logPc' = "fetchDone"
    /\ fEntries' = IF fCur # <<>> /\ Passes(fCur[1], fFilter)
                   THEN Append(fEntries, fCur[1]) ELSE fEntries
    /\ fOut' = SortEntries(fEntries')
    /\ UNCHANGED <<now, fFilter, fRaw, fLines, fCur, fErr, fStderr, fErrText,
                   fPrev, folSource, folFilter, folStream, folLines, folCur,
                   folCalls, folSent, folSplits, folHeaders, ctxDone, folErr,
                   procKilled, proc, pipeOpen, hReturned, rid, other, hubVars,
                   fsVars, argsVars, svcVars>>

\* GetLogs is called a second time, the output of journalctl unchanged
GetLogsAgain(filter) ==
    /\ logPc = "fetchDone"
    /\ fPrev = <<>>
    /\ fPrev' = <<[Filter |-> fFilter, Out |-> fOut]>>
    /\ logPc' = "parse"
    /\ fFilter' = filter
    /\ fLines' = SplitLines(fRaw)
    /\ fCur' = <<>>
    /\ fEntries' = <<>>
    /\ fOut' = <<>>
    /\ UNCHANGED <<now, fRaw, fErr, fStderr, fErrText, folSource, folFilter,
                   folStream, folLines, folCur, folCalls, folSent, folSplits,
                   folHeaders, ctxDone, folErr, procKilled, proc, pipeOpen,
                   hReturned, rid, other, hubVars, fsVars, argsVars, svcVars>>

\* the values time.Now() can return: the clock as it is, or advanced
Clock == {t \in {now, now + 1} : t <= 3 + ClockTicks}

\* indexOf of handler.go: the first index at which substr is in s, -1 for none
indexOf(s, substr) ==
    LET found == {i \in 0..(Len(s) - Len(substr)) :
                     SubSeq(s, i + 1, i + Len(substr)) = substr}
    IN IF found = {} THEN -1 ELSE CHOOSE i \in found : \A j \in found : i <= j

\* contains of handler.go
contains(s, substr) ==
    /\ Len(s) >= Len(substr)
    /\ \/ s = substr
       \/ Len(s) > Len(substr) /\ indexOf(s, substr) >= 0

\* the callback streamLogs gives to FollowLogs: the entry is passed to
\* sendEvent unless the level or the search text of the request rules it out
Callback(sent, entry, filter) ==
    IF filter.Level # <<>> /\ entry.Level # filter.Level THEN sent
    ELSE IF filter.Search # <<>> /\ ~contains(entry.Message, filter.Search) THEN sent
    ELSE Append(sent, entry)

\* FollowLogs: journalctl -f is started (by a stream request with no level
\* and no search text); folStream is all it writes before its pipe reaches
\* end of file
FollowStart ==
    /\ logPc = "idle"
    /\ logPc' = "folTop"
    /\ \E ls \in SeqsUpTo(FollowRawLines, MaxFollowLines) : folStream' = Unlines(ls)
    /\ folSource' = folStream'
    /\ proc' = "running"
    /\ pipeOpen' = TRUE
    /\ UNCHANGED <<now, fFilter, fRaw, fLines, fCur, fEntries, fOut, fErr,
                   fStderr, fErrText, fPrev, folFilter, folLines, folCur,
                   folCalls, folSent, folSplits, folHeaders, ctxDone, folErr,
                   procKilled, hReturned, rid, other, hubVars, fsVars,
                   argsVars, svcVars>>

\* the streams of two requests that run side by side: one with a record to
\* deliver and a record to hold back, one with a single record
ShortStreams == {<<LineInfo1, LineError1>>, <<LineError1b>>}

\* FollowStart, the source writing one of the short streams
FollowStartShort ==
    /\ logPc = "idle"
    /\ logPc' = "folTop"
    /\ \E ls \in ShortStreams : folStream' = Unlines(ls)
    /\ folSource' = folStream'
    /\ proc' = "running"
    /\ pipeOpen' = TRUE
    /\ UNCHANGED <<now, fFilter, fRaw, fLines, fCur, fEntries, fOut, fErr,
                   fStderr, fErrText, fPrev, folFilter, folLines, folCur,
                   folCalls, folSent, folSplits, folHeaders, ctxDone, folErr,
                   procKilled, hReturned, rid, other, hubVars, fsVars,
                   argsVars, svcVars>>

\* the variables of the request that is running, as one record
Request ==
    [logPc |-> logPc, folSource |-> folSource, folFilter |-> folFilter,
     folStream |-> folStream, folLines |-> folLines, folCur |-> folCur,
     folCalls |-> folCalls, folSent |-> folSent, folSplits |-> folSplits,
     folHeaders |-> folHeaders, ctxDone |-> ctxDone, folErr |-> folErr,
     procKilled |-> procKilled, proc |-> proc, pipeOpen |-> pipeOpen,
     hReturned |-> hReturned]

\* the entry pending in the request that runs next, were currentEntry a
\* field of the Service and not a variable of the call
SharedPending(r) == folCur

\* the entry pending in the request that runs next: currentEntry is a local
\* variable of FollowLogs, line 187, each call has its own
OwnPending(r) == r.folCur

\* the goroutine of the other stream request runs next: each request has its
\* own context, filter, process, pipe, buffer and pending entry (handler.go
\* 96-125, service.go 174-187), which are exchanged for the other's
Switch ==
    /\ rid' = 3 - rid
    /\ other' = Request
    /\ logPc' = other.logPc
    /\ folSource' = other.folSource
    /\ folFilter' = other.folFilter
    /\ folStream' = other.folStream
    /\ folLines' = other.folLines
    /\ folCur' = OwnPending(other)
    /\ folCalls' = other.folCalls
    /\ folSent' = other.folSent
    /\ folSplits' = other.folSplits
    /\ folHeaders' = other.folHeaders
    /\ ctxDone' = other.ctxDone
    /\ folErr' = other.folErr
    /\ procKilled' = other.procKilled
    /\ proc' = other.proc
    /\ pipeOpen' = other.pipeOpen
    /\ hReturned' = other.hReturned
    /\ UNCHANGED <<now, fFilter, fRaw, fLines, fCur, fEntries, fOut, fErr,
                   fStderr, fErrText, fPrev, hubVars, fsVars, argsVars, svcVars>>

\* FollowLogs, lines 174-183: cmd.Start() returns an error, the context's
\* when the context was cancelled before it; no process runs, and Start has
\* closed the pipe that StdoutPipe had made
FollowStartFail(cancelled) ==
    /\ logPc = "idle"
    /\ logPc' = "folReturned"
    /\ ctxDone' = cancelled
    /\ folErr' = IF cancelled THEN "start error: context canceled"
                 ELSE "start error: executable file not found"
    /\ UNCHANGED <<now, fFilter, fRaw, fLines, fCur, fEntries, fOut, fErr,
                   fStderr, fErrText, fPrev, folSource, folFilter, folStream,
                   folLines, folCur, folCalls, folSent, folSplits, folHeaders,
                   procKilled, proc, pipeOpen, hReturned, rid, other, hubVars,
                   fsVars, argsVars, svcVars>>

\* the caller cancels the context of the request
Cancel ==
    /\ logPc \in {"folTop", "folRead", "folLines", "folReturned", "streamDone"}
    /\ ~ctxDone
    /\ ctxDone' = TRUE
    /\ UNCHANGED <<now, logPc, fFilter, fRaw, fLines, fCur, fEntries, fOut,
                   fErr, fStderr, fErrText, fPrev, folSource, folFilter,
                   folStream, folLines, folCur, folCalls, folSent, folSplits,
                   folHeaders, folErr, procKilled, proc, pipeOpen, hReturned,
                   rid, other, hubVars, fsVars, argsVars, svcVars>>

\* FollowLogs, the select at the top of the loop: on <-ctx.Done() the
\* process is killed and ctx.Err() returned; else stdout.Read is entered
FollowSelect ==
    /\ logPc = "folTop"
    /\ IF ctxDone
       THEN /\ logPc' = "folReturned"
            /\ procKilled' = TRUE
            /\ proc' = IF proc = "running" THEN "killed" ELSE proc
            /\ folErr' = "context canceled"
       ELSE /\ logPc' = "folRead"
            /\ UNCHANGED <<procKilled, proc, folErr>>
    /\ UNCHANGED <<now, fFilter, fRaw, fLines, fCur, fEntries, fOut, fErr,
                   fStderr, fErrText, fPrev, folSource, folFilter, folStream,
                   folLines, folCur, folCalls, folSent, folSplits, folHeaders,
                   ctxDone, pipeOpen, hReturned, rid, other, hubVars, fsVars,
                   argsVars, svcVars>>

\* exec.CommandContext, line 174: the command kills its process once the
\* context is done
CtxKill ==
    /\ ctxDone
    /\ proc = "running"
    /\ proc' = "killed"
    /\ UNCHANGED <<now, logPc, fFilter, fRaw, fLines, fCur, fEntries, fOut,
                   fErr, fStderr, fErrText, fPrev, folSource, folFilter,
                   folStream, folLines, folCur, folCalls, folSent, folSplits,
                   folHeaders, ctxDone, folErr, procKilled, pipeOpen,
                   hReturned, rid, other, hubVars, fsVars, argsVars, svcVars>>

\* the source ends by itself
SourceExit ==
    /\ proc = "running"
    /\ ~ctxDone
    /\ proc' = "exited"
    /\ UNCHANGED <<now, logPc, fFilter, fRaw, fLines, fCur, fEntries, fOut,
                   fErr, fStderr, fErrText, fPrev, folSource, folFilter,
                   folStream, folLines, folCur, folCalls, folSent, folSplits,
                   folHeaders, ctxDone, folErr, procKilled, pipeOpen,
                   hReturned, rid, other, hubVars, fsVars, argsVars, svcVars>>

\* stdout.Read returned the next n bytes
FollowRead(n) ==
    /\ logPc = "folRead"
    /\ n \in 1..Len(folStream)
    /\ IF folStream[n] = "\n"
       THEN UNCHANGED folSplits
       ELSE /\ folSplits < MaxSplits
            /\ folSplits' = folSplits + 1
    /\ folStream' = SubSeq(folStream, n + 1, Len(folStream))
    /\ folLines' = SplitLines(SubSeq(folStream, 1, n))
    /\ logPc' = "folLines"
    /\ UNCHANGED <<now, fFilter, fRaw, fLines, fCur, fEntries, fOut, fErr,
                   fStderr, fErrText, fPrev, folSource, folFilter, folCur,
                   folCalls, folSent, folHeaders, ctxDone, folErr, procKilled,
                   proc, pipeOpen, hReturned, rid, other, hubVars, fsVars,
                   argsVars, svcVars>>

\* FollowLogs returns the error of the read and calls callback for nothing
FollowReadErrDropsPending ==
    /\ logPc = "folRead"
    /\ folStream = <<>>
    /\ proc \in {"exited", "killed"}
    /\ folErr' = "EOF"
    /\ logPc' = "folReturned"
    /\ UNCHANGED <<now, fFilter, fRaw, fLines, fCur, fEntries, fOut, fErr,
                   fStderr, fErrText, fPrev, folSource, folFilter, folStream,
                   folLines, folCur, folCalls, folSent, folSplits, folHeaders,
                   ctxDone, procKilled, proc, pipeOpen, hReturned, rid, other,
                   hubVars, fsVars, argsVars, svcVars>>

\* stdout.Read returned an error (end of file: the source has exited or was
\* killed, and what it wrote is read): the pending entry goes to callback and
\* the error is returned
FollowReadErr ==
    /\ logPc = "folRead"
    /\ folStream = <<>>
    /\ proc \in {"exited", "killed"}
    /\ folCalls' = IF folCur # <<>> THEN Append(folCalls, folCur[1]) ELSE folCalls
    /\ folSent' = IF folCur # <<>> THEN Callback(folSent, folCur[1], folFilter) ELSE folSent
    /\ folErr' = "EOF"
    /\ logPc' = "folReturned"
    /\ UNCHANGED <<now, fFilter, fRaw, fLines, fCur, fEntries, fOut, fErr,
                   fStderr, fErrText, fPrev, folSource, folFilter, folStream,
                   folLines, folCur, folSplits, folHeaders, ctxDone,
                   procKilled, proc, pipeOpen, hReturned, rid, other, hubVars,
                   fsVars, argsVars, svcVars>>

SameTimestamp(e, cur) == e.Timestamp = cur.Timestamp
SameLevel(e, cur) == e.Level = cur.Level


\* FollowLogs, lines 226-228: the entry continues the pending one, having its
\* timestamp and its level
SameRecord(e, cur) == e.Timestamp = cur.Timestamp /\ e.Level = cur.Level

\* FollowLogs, lines 208-239: one turn of the loop over the lines of a chunk;
\* t is the time.Now() taken when the text of the timestamp does not parse
FollowLine(t) ==
    /\ logPc = "folLines"
    /\ folLines # <<>>
    /\ folLines' = Tail(folLines)
    /\ logPc' = IF Len(folLines) = 1 THEN "folTop" ELSE "folLines"
    /\ LET line == TrimSpace(Head(folLines))
           entry == parseLogLine(line, t)
       IN IF line = <<>>
          THEN UNCHANGED <<folCur, folCalls, folSent, folHeaders, now>>
          ELSE IF entry = <<>>
          THEN /\ folCur' = IF folCur # <<>>
                            THEN <<[folCur[1] EXCEPT !.Message = AppendLine(@, line)]>>
                            ELSE folCur
               /\ UNCHANGED <<folCalls, folSent, folHeaders, now>>
          ELSE /\ folHeaders' = folHeaders + 1
               /\ now' = IF ParseTime(FindHeader(line)[1].ts) = <<>> THEN t ELSE now
               /\ IF folCur # <<>> /\ SameRecord(entry[1], folCur[1])
                  THEN /\ folCur' = <<[folCur[1] EXCEPT
                                         !.Message = AppendLine(@, entry[1].Message)]>>
                       /\ UNCHANGED <<folCalls, folSent>>
                  ELSE /\ folCalls' = IF folCur # <<>>
                                      THEN Append(folCalls, folCur[1]) ELSE folCalls
                       /\ folSent' = IF folCur # <<>>
                                     THEN Callback(folSent, folCur[1], folFilter)
                                     ELSE folSent
                       /\ folCur' = entry
    /\ UNCHANGED <<fFilter, fRaw, fLines, fCur, fEntries, fOut, fErr, fStderr,
                   fErrText, fPrev, folSource, folFilter, folStream, folSplits,
                   ctxDone, folErr, procKilled, proc, pipeOpen, hReturned, rid,
                   other, hubVars, fsVars, argsVars, svcVars>>

\* Handler.streamLogs: a request with a level or a search text; FollowLogs is
\* started with the callback that filters by them
StreamLogs(filter) ==
    /\ logPc = "idle"
    /\ logPc' = "folTop"
    /\ folFilter' = filter
    /\ \E ls \in SeqsUpTo(FollowRawLines, MaxFollowLines) : folStream' = Unlines(ls)
    /\ folSource' = folStream'
    /\ proc' = "running"
    /\ pipeOpen' = TRUE
    /\ UNCHANGED <<now, fFilter, fRaw, fLines, fCur, fEntries, fOut, fErr,
                   fStderr, fErrText, fPrev, folLines, folCur, folCalls,
                   folSent, folSplits, folHeaders, ctxDone, folErr, procKilled,
                   hReturned, rid, other, hubVars, fsVars, argsVars, svcVars>>

Str_ERROR == <<"E", "R", "R", "O", "R">>

\* streamLogs, lines 138-144: FollowLogs has returned an error to the
\* goroutine, which passes an entry of level ERROR with the text of the error
\* to sendEvent; t is the time.Now() it takes
StreamError(t) ==
    /\ logPc = "folReturned"
    /\ folErr # ""
    /\ folSent' = Append(folSent, [Timestamp |-> t,
                                   Level |-> Str_ERROR,
                                   Message |-> <<"Log stream error: ", folErr>>])
    /\ now' = t
    /\ logPc' = "streamDone"
    /\ UNCHANGED <<fFilter, fRaw, fLines, fCur, fEntries, fOut, fErr, fStderr,
                   fErrText, fPrev, folSource, folFilter, folStream, folLines,
                   folCur, folCalls, folSplits, folHeaders, ctxDone, folErr,
                   procKilled, proc, pipeOpen, hReturned, rid, other, hubVars,
                   fsVars, argsVars, svcVars>>

\* streamLogs, line 147: the handler waits for the context of the request
\* and returns, which finishes the response
HandlerReturn ==
    /\ logPc \in {"folTop", "folRead", "folLines", "folReturned", "streamDone"}
    /\ ctxDone
    /\ ~hReturned
    /\ hReturned' = TRUE
    /\ UNCHANGED <<now, logPc, fFilter, fRaw, fLines, fCur, fEntries, fOut,
                   fErr, fStderr, fErrText, fPrev, folSource, folFilter,
                   folStream, folLines, folCur, folCalls, folSent, folSplits,
                   folHeaders, ctxDone, folErr, procKilled, proc, pipeOpen,
                   rid, other, hubVars, fsVars, argsVars, svcVars>>

\* one request that nobody cancels: a bounded fetch or a live follow
LogNext ==
    \/ \E f \in Filters : GetLogs(f)
    \/ \E f \in Filters : GetLogsFail(f)
    \/ \E t \in Clock : ParseLine(t)
    \/ ParseFinish
    \/ FollowStart
    \/ SourceExit
    \/ FollowSelect
    \/ \E n \in 1..Len(folStream) : FollowRead(n)
    \/ FollowReadErr
    \/ \E t \in Clock : FollowLine(t)

\* one call of FollowLogs, which the caller may cancel at any moment
FollowNext ==
    \/ FollowStart
    \/ \E cancelled \in BOOLEAN : FollowStartFail(cancelled)
    \/ Cancel
    \/ CtxKill
    \/ SourceExit
    \/ FollowSelect
    \/ \E n \in 1..Len(folStream) : FollowRead(n)
    \/ FollowReadErr
    \/ \E t \in Clock : FollowLine(t)

\* one bounded fetch and nothing else
FetchOnceNext ==
    \/ \E f \in Filters : GetLogs(f)
    \/ \E f \in Filters : GetLogsFail(f)
    \/ \E t \in Clock : ParseLine(t)
    \/ ParseFinish

\* one stream request whose source ends by itself; the client may go away
\* once FollowLogs has returned
SourceEndNext ==
    \/ FollowStart
    \/ SourceExit
    \/ FollowSelect
    \/ \E n \in 1..Len(folStream) : FollowRead(n)
    \/ FollowReadErr
    \/ \E t \in Clock : FollowLine(t)
    \/ \E t \in Clock : StreamError(t)
    \/ logPc \in {"folReturned", "streamDone"} /\ Cancel
    \/ HandlerReturn

\* two stream requests side by side, each of which the client may cancel;
\* every read ends at the end of a line
TwoNext ==
    \/ FollowStartShort
    \/ Cancel
    \/ CtxKill
    \/ SourceExit
    \/ FollowSelect
    \/ \E n \in {k \in 1..Len(folStream) : folStream[k] = "\n"} : FollowRead(n)
    \/ FollowReadErr
    \/ \E t \in Clock : FollowLine(t)
    \/ \E t \in Clock : StreamError(t)
    \/ HandlerReturn
    \/ Switch

\* one stream request, with any level and search text
StreamNext ==
    \/ FollowNext
    \/ \E f \in Filters : StreamLogs(f)
    \/ \E t \in Clock : StreamError(t)
    \/ HandlerReturn

\* bounded fetches only, a second one with the same arguments over the same
\* output included
FetchNext ==
    \/ \E f \in Filters : GetLogs(f)
    \/ \E f \in Filters : GetLogsFail(f)
    \/ \E t \in Clock : ParseLine(t)
    \/ ParseFinish
    \/ GetLogsAgain(fFilter)

\* the same, the second fetch with any filter
RefilterNext ==
    \/ FetchNext
    \/ \E f \in Filters : GetLogsAgain(f)


(***************************************************************************)
(* Requests that filter by level                                           *)
(***************************************************************************)
\* lines with a level of the usual five, with a level outside them, and with
\* a level in small letters, which logPattern does not match
LevelLines == {LineInfo1, LineTrace, LineLower}

Str_TRACE == <<"T", "R", "A", "C", "E">>
Str_info == <<"i", "n", "f", "o">>
Str_INF == <<"I", "N", "F">>

\* the level parameter of a request, as the client wrote it
LevelFilters ==
    {[Level |-> l, Search |-> <<>>] : l \in {<<>>, Str_INFO, Str_TRACE, Str_info, Str_INF}}

\* GetLogs, journalctl writing lines of LevelLines
GetLogsLevels(filter) ==
    /\ logPc = "idle"
    /\ logPc' = "parse"
    /\ fFilter' = filter
    /\ \E ls \in SeqsUpTo(LevelLines, MaxLines) :
          /\ fRaw' = JoinLines(ls)
          /\ fLines' = SplitLines(JoinLines(ls))
    /\ UNCHANGED <<now, fCur, fEntries, fOut, fErr, fStderr, fErrText, fPrev,
                   folSource, folFilter, folStream, folLines, folCur, folCalls,
                   folSent, folSplits, folHeaders, ctxDone, folErr, procKilled,
                   proc, pipeOpen, hReturned, rid, other, hubVars, fsVars,
                   argsVars, svcVars>>

\* StreamLogs, journalctl -f writing lines of LevelLines
StreamLogsLevels(filter) ==
    /\ logPc = "idle"
    /\ logPc' = "folTop"
    /\ folFilter' = filter
    /\ \E ls \in SeqsUpTo(LevelLines, MaxFollowLines) : folStream' = Unlines(ls)
    /\ folSource' = folStream'
    /\ proc' = "running"
    /\ pipeOpen' = TRUE
    /\ UNCHANGED <<now, fFilter, fRaw, fLines, fCur, fEntries, fOut, fErr,
                   fStderr, fErrText, fPrev, folLines, folCur, folCalls,
                   folSent, folSplits, folHeaders, ctxDone, folErr, procKilled,
                   hReturned, rid, other, hubVars, fsVars, argsVars, svcVars>>

\* one request with a level parameter: a bounded fetch, or a stream whose
\* source ends by itself
LevelsNext ==
    \/ \E f \in LevelFilters : GetLogsLevels(f)
    \/ \E t \in Clock : ParseLine(t)
    \/ ParseFinish
    \/ \E f \in LevelFilters : StreamLogsLevels(f)
    \/ SourceExit
    \/ FollowSelect
    \/ \E n \in 1..Len(folStream) : FollowRead(n)
    \/ FollowReadErr
    \/ \E t \in Clock : FollowLine(t)
    \/ \E t \in Clock : StreamError(t)

(***************************************************************************)
(* The file handlers.  A path is the sequence of its components; an       *)
(* absolute path starts at the root <<>>.  A request path is what the      *)
(* query parameter holds: its components as written, and whether it starts *)
(* with a slash.                                                           *)
(***************************************************************************)
MaxPathLen == 3

\* the components a request path is written with: names, one of them
\* starting with two dots, and the two special components
Names == {"a", "l", "..a"}
Components == Names \cup {".", ".."}

RECURSIVE Clean(_, _)
\* filepath.Clean of the absolute path made of the cleaned prefix acc followed
\* by the components rest
Clean(acc, rest) ==
    IF rest = <<>> THEN acc
    ELSE LET c == Head(rest)
         IN  IF c = "." THEN Clean(acc, Tail(rest))
             ELSE IF c = ".."
                  THEN Clean(IF acc = <<>> THEN <<>>
                             ELSE SubSeq(acc, 1, Len(acc) - 1), Tail(rest))
                  ELSE Clean(Append(acc, c), Tail(rest))

\* filepath.Join(absBase, path): the two joined by a separator, then cleaned;
\* a leading slash of path makes no difference
Join(absBase, path) == Clean(<<>>, absBase \o path.comps)

\* filepath.Abs of a path that is absolute already
Abs(p) == Clean(<<>>, p)

RECURSIVE CommonLen(_, _)
CommonLen(p, q) ==
    IF p # <<>> /\ q # <<>> /\ Head(p) = Head(q)
    THEN 1 + CommonLen(Tail(p), Tail(q))
    ELSE 0

\* filepath.Rel(base, targ) of two clean absolute paths: one ".." for each
\* component of base past the common prefix, then the rest of targ; "." when
\* they are the same
Rel(base, targ) ==
    LET n == CommonLen(base, targ)
        up == [i \in 1..(Len(base) - n) |-> ".."]
        rest == SubSeq(targ, n + 1, Len(targ))
    IN  IF up \o rest = <<>> THEN <<".">> ELSE up \o rest

\* strings.HasPrefix(relPath, ".."): the first two characters of the text
HasPrefixDotDot(relPath) == Head(relPath) \in {"..", "..a"}

IsEmpty(path) == ~path.abs /\ path.comps = <<>>
IsSlash(path) == path.abs /\ path.comps = <<>>
IsDot(path) == ~path.abs /\ path.comps = <<".">>

sanitizePath(absBase, path) ==
    LET targetPath == IF IsEmpty(path) \/ IsSlash(path) \/ IsDot(path)
                      THEN absBase
                      ELSE Join(absBase, path)
        absPath == Abs(targetPath)
        relPath == Rel(absBase, absPath)
    IN  IF HasPrefixDotDot(relPath)
        THEN [err |-> TRUE, path |-> <<>>]
        ELSE [err |-> FALSE, path |-> absPath]

RECURSIVE Walk(_, _, _, _)
\* where the kernel arrives when it walks the components rest from cur: a
\* directory on the way that is a symbolic link is followed, the last
\* component only if followLast
Walk(cur, rest, links, followLast) ==
    IF rest = <<>> THEN cur
    ELSE LET nxt == Append(cur, Head(rest))
             last == Tail(rest) = <<>>
             to == IF nxt \in DOMAIN links /\ (~last \/ followLast)
                   THEN links[nxt] ELSE nxt
         IN  Walk(to, Tail(rest), links, followLast)

Resolve(p, links) == Walk(<<>>, p, links, TRUE)
ResolveNoFollow(p, links) == Walk(<<>>, p, links, FALSE)

\* filepath.Dir of a clean absolute path
Dir(p) == IF p = <<>> THEN <<>> ELSE SubSeq(p, 1, Len(p) - 1)

Ops == {"list", "read", "write", "delete", "mkdir"}

Bases == {<<>>, <<"w">>, <<"w", "d">>}

\* the disk without a symbolic link, and with the link l in the base
\* directory that points to the directory /o
LinkSets(base) == {<<>>, [p \in {Append(base, "l")} |-> <<"o">>]}

ReqPaths ==
    [abs : BOOLEAN,
     comps : UNION {[1..n -> Components] : n \in 0..MaxPathLen}]

FsInit ==
    /\ fsPc = "idle"
    /\ fsBase = <<>>
    /\ fsLinks = <<>>
    /\ fsOp = "list"
    /\ fsReq = [abs |-> FALSE, comps |-> <<>>]
    /\ fsPath = <<>>
    /\ fsActed = {}

\* a handler receives a request: the checks before sanitizePath, then
\* sanitizePath itself
FileRequest(base, links, op, path) ==
    /\ fsPc = "idle"
    /\ fsBase' = base
    /\ fsLinks' = links
    /\ fsOp' = op
    /\ fsReq' = path
    /\ fsActed' = {}
    /\ IF op # "list" /\ IsEmpty(path)
       THEN fsPc' = "rejected" /\ fsPath' = <<>>
       ELSE LET r == sanitizePath(base, path)
            IN  /\ fsPc' = IF r.err THEN "rejected" ELSE "sanitized"
                /\ fsPath' = r.path
    /\ UNCHANGED <<hubVars, logVars, argsVars, svcVars>>

\* the os calls of the handler on the sanitized path
FileOp ==
    /\ fsPc = "sanitized"
    /\ fsPc' = "done"
    /\ fsActed' =
         CASE fsOp \in {"list", "read", "mkdir"} ->
                {Resolve(fsPath, fsLinks)}
           [] fsOp = "write" ->
                {Resolve(Dir(fsPath), fsLinks), Resolve(fsPath, fsLinks)}
           [] fsOp = "delete" ->
                {Resolve(fsPath, fsLinks), ResolveNoFollow(fsPath, fsLinks)}
    /\ UNCHANGED <<fsBase, fsLinks, fsOp, fsReq, fsPath, hubVars, logVars,
                   argsVars, svcVars>>

FilesNext ==
    \/ \E base \in Bases, op \in Ops, path \in ReqPaths :
          \E links \in LinkSets(base) : FileRequest(base, links, op, path)
    \/ FileOp

(***************************************************************************)
(* GetLogs: the arguments of the journalctl run                            *)
(***************************************************************************)
\* the length of the since parameter of a request
MaxSinceLen == 3

Digits == {"0", "5"}
Units == {"m", "h", "d"}

\* the characters a since parameter is written with
SinceChars == Digits \cup Units \cup {" ", "x"}

Str_MinutesAgo == <<" ", "m", "i", "n", "u", "t", "e", "s", " ", "a", "g", "o">>
Str_HoursAgo == <<" ", "h", "o", "u", "r", "s", " ", "a", "g", "o">>
Str_DaysAgo == <<" ", "d", "a", "y", "s", " ", "a", "g", "o">>

\* the pattern applied to any suffix of the text
parseRelativeTimeUnanchored(since) ==
    LET starts == {i \in 1..(Len(since) - 1) :
                      /\ \A k \in i..(Len(since) - 1) : since[k] \in Digits
                      /\ since[Len(since)] \in Units}
    IN  IF starts = {} THEN since
        ELSE LET i == CHOOSE x \in starts : \A y \in starts : x <= y
                 value == SubSeq(since, i, Len(since) - 1)
                 unit == since[Len(since)]
             IN  CASE unit = "m" -> value \o Str_MinutesAgo
                   [] unit = "h" -> value \o Str_HoursAgo
                   [] unit = "d" -> value \o Str_DaysAgo

\* parseRelativeTime: the pattern ^(\d+)([mhd])$ and the switch on the unit
parseRelativeTime(since) ==
    IF /\ Len(since) >= 2
       /\ \A k \in 1..(Len(since) - 1) : since[k] \in Digits
       /\ since[Len(since)] \in Units
    THEN LET value == SubSeq(since, 1, Len(since) - 1)
             unit == since[Len(since)]
         IN  CASE unit = "m" -> value \o Str_MinutesAgo
               [] unit = "h" -> value \o Str_HoursAgo
               [] unit = "d" -> value \o Str_DaysAgo
    ELSE since

\* the arguments every journalctl run of GetLogs has; the unit is "u"
BaseArgs == <<<<"-", "u">>, <<"u">>, <<"-", "o">>, <<"c", "a", "t">>, <<"-", "-", "n", "o", "-", "p", "a", "g", "e", "r">>>>

Str_since == <<"-", "-", "s", "i", "n", "c", "e">>
Str_n == <<"-", "n">>

\* fmt.Sprintf("%d", lines) of the line counts a request is made with
Sprintf(lines) == IF lines = 2 THEN <<"2">> ELSE <<"0">>

ArgsInit ==
    /\ argsPc = "idle"
    /\ gSince = <<>>
    /\ gLines = 0
    /\ gArgs = <<>>

\* GetLogs, lines 24-41: args is built from the filter
BuildArgs(since, lines) ==
    /\ argsPc = "idle"
    /\ argsPc' = "built"
    /\ gSince' = since
    /\ gLines' = lines
    /\ gArgs' = BaseArgs
                \o (IF since # <<>> THEN <<Str_since, parseRelativeTime(since)>>
                    ELSE <<>>)
                \o (IF lines > 0 THEN <<Str_n, Sprintf(lines)>> ELSE <<>>)
    /\ UNCHANGED <<hubVars, logVars, fsVars, svcVars>>

ArgsNext ==
    \E since \in SeqsUpTo(SinceChars, MaxSinceLen), lines \in {0, 2} :
          BuildArgs(since, lines)

(***************************************************************************)
(* The service status and its cache (api/service.go)                       *)
(*                                                                         *)
(* The state of the unit is the number of control actions systemctl has   *)
(* carried out on it; the status made from a sample is that number.        *)
(***************************************************************************)
\* how far the clock advances
MaxTime == 3
\* the number of ControlService calls that succeed
MaxActions == 2
\* the age below which the cache is returned (5 seconds in the source,
\* scaled down)
CacheWindow == 2

\* two goroutines that call GetServiceStatus side by side (net/http serves
\* each request in a goroutine of its own)
Callers == {1, 2}

\* time.Time{}: long before the clock's start
ZeroTime == -100
\* ServiceResponse{}
NoStatus == -1
\* a call that returned its error
StatusErr == -2

SvcInit ==
    /\ svcNow = 0
    /\ sysVer = 0
    /\ serviceStatusCache = NoStatus
    /\ serviceCacheTime = ZeroTime
    /\ lastRefresh = ZeroTime
    /\ gPc = [i \in Callers |-> "idle"]
    /\ gSample = [i \in Callers |-> NoStatus]
    /\ gRet = [i \in Callers |-> NoStatus]
    /\ gQueried = [i \in Callers |-> FALSE]
    /\ gStartDone = [i \in Callers |-> 0]
    /\ ctlPc = "idle"
    /\ ctlRet = "none"
    /\ completed = 0

\* the clock advances
SvcTick ==
    /\ svcNow < MaxTime
    /\ svcNow' = svcNow + 1
    /\ UNCHANGED <<sysVer, serviceStatusCache, serviceCacheTime, lastRefresh,
                   gPc, gSample, gRet, gQueried, gStartDone, ctlPc, ctlRet,
                   completed, hubVars, logVars, fsVars, argsVars>>

\* the test of line 35 on a cache time that a ControlService call never resets
CacheIsFreshSinceRefresh == svcNow - lastRefresh < CacheWindow

\* GetServiceStatus, line 35: time.Since(serviceCacheTime) < 5*time.Second
CacheIsFresh == svcNow - serviceCacheTime < CacheWindow

\* GetServiceStatus is entered, lines 33-37: a fresh cache is returned, else
\* the call goes on to run systemctl show
GetServiceStatus(i) ==
    /\ gPc[i] \in {"idle", "returned", "failed"}
    /\ gStartDone' = [gStartDone EXCEPT ![i] = completed]
    /\ gQueried' = [gQueried EXCEPT ![i] = FALSE]
    /\ IF CacheIsFresh
       THEN /\ gRet' = [gRet EXCEPT ![i] = serviceStatusCache]
            /\ gPc' = [gPc EXCEPT ![i] = "returned"]
       ELSE /\ gRet' = [gRet EXCEPT ![i] = NoStatus]
            /\ gPc' = [gPc EXCEPT ![i] = "querying"]
    /\ UNCHANGED <<svcNow, sysVer, serviceStatusCache, serviceCacheTime,
                   lastRefresh, gSample, ctlPc, ctlRet, completed, hubVars,
                   logVars, fsVars, argsVars>>

\* GetServiceStatus, lines 40-44: systemctl show ran; on an error the call
\* returns it, else the output tells the state of the unit as it is now
Query(i, ok) ==
    /\ gPc[i] = "querying"
    /\ gQueried' = [gQueried EXCEPT ![i] = TRUE]
    /\ IF ok
       THEN /\ gSample' = [gSample EXCEPT ![i] = sysVer]
            /\ gPc' = [gPc EXCEPT ![i] = "sampled"]
            /\ UNCHANGED gRet
       ELSE /\ gRet' = [gRet EXCEPT ![i] = StatusErr]
            /\ gPc' = [gPc EXCEPT ![i] = "failed"]
            /\ UNCHANGED gSample
    /\ UNCHANGED <<svcNow, sysVer, serviceStatusCache, serviceCacheTime,
                   lastRefresh, gStartDone, ctlPc, ctlRet, completed, hubVars,
                   logVars, fsVars, argsVars>>

\* GetServiceStatus, lines 46-90: the response is made from the output,
\* written to the cache with the present time, and returned
Store(i) ==
    /\ gPc[i] = "sampled"
    /\ serviceStatusCache' = gSample[i]
    /\ serviceCacheTime' = svcNow
    /\ lastRefresh' = svcNow
    /\ gRet' = [gRet EXCEPT ![i] = gSample[i]]
    /\ gPc' = [gPc EXCEPT ![i] = "returned"]
    /\ UNCHANGED <<svcNow, sysVer, gSample, gQueried, gStartDone, ctlPc,
                   ctlRet, completed, hubVars, logVars, fsVars, argsVars>>

\* ControlService with an action other than start, stop, restart: line 110
ControlInvalid ==
    /\ ctlPc = "idle"
    /\ ctlRet' = "invalid action"
    /\ UNCHANGED <<svcNow, sysVer, serviceStatusCache, serviceCacheTime,
                   lastRefresh, gPc, gSample, gRet, gQueried, gStartDone,
                   ctlPc, completed, hubVars, logVars, fsVars, argsVars>>

\* ControlService, lines 102-115: sudo systemctl ran; on an error the call
\* returns it, else the unit has changed
ControlRun(ok) ==
    /\ ctlPc = "idle"
    /\ IF ok
       THEN /\ sysVer < MaxActions
            /\ sysVer' = sysVer + 1
            /\ ctlPc' = "ran"
            /\ ctlRet' = "none"
       ELSE /\ ctlRet' = "failed"
            /\ UNCHANGED <<sysVer, ctlPc>>
    /\ UNCHANGED <<svcNow, serviceStatusCache, serviceCacheTime, lastRefresh,
                   gPc, gSample, gRet, gQueried, gStartDone, completed,
                   hubVars, logVars, fsVars, argsVars>>

\* ControlService, lines 117-122: the cache time is reset and nil returned
ControlReset ==
    /\ ctlPc = "ran"
    /\ serviceCacheTime' = ZeroTime
    /\ ctlPc' = "idle"
    /\ ctlRet' = "nil"
    /\ completed' = completed + 1
    /\ UNCHANGED <<svcNow, sysVer, serviceStatusCache, lastRefresh, gPc,
                   gSample, gRet, gQueried, gStartDone, hubVars, logVars,
                   fsVars, argsVars>>

ServiceNext ==
    \/ SvcTick
    \/ \E i \in Callers : GetServiceStatus(i)
    \/ \E i \in Callers, ok \in BOOLEAN : Query(i, ok)
    \/ \E i \in Callers : Store(i)
    \/ ControlInvalid
    \/ \E ok \in BOOLEAN : ControlRun(ok)
    \/ ControlReset

vars == <<hubVars, logVars, fsVars, argsVars, svcVars>>

\* the hub, its clients and its publishers
Init == HubInit /\ trackCalls = FALSE /\ LogInit /\ FsInit /\ ArgsInit /\ SvcInit
Next == HubNext
Spec == Init /\ [][Next]_vars

\* the same, recording for each client how many Broadcast calls preceded the
\* return of its register send
InitCalls == HubInit /\ trackCalls = TRUE /\ LogInit /\ FsInit /\ ArgsInit /\ SvcInit
SpecCalls == InitCalls /\ [][Next]_vars

\* the same, with Run scheduled fairly: a case of its select that stays ready
\* is taken in the end (Go picks among the ready cases at random); nothing is
\* assumed about the publishers, the peers or the pumps
Fairness ==
    /\ WF_vars(HubBroadcast)
    /\ \A c \in Clients : WF_vars(HubRegister(c))
    /\ \A c \in Clients : WF_vars(HubUnregister(c))
SpecFair == Init /\ [][Next]_vars /\ Fairness

\* the same, with the read pumps scheduled too: ReadMessage on a connection
\* that was closed returns its error in the end
PumpFairness == \A c \in Clients : WF_vars(connClosed[c] /\ ReadError(c))
SpecPumpsFair == Init /\ [][Next]_vars /\ Fairness /\ PumpFairness

\* the same, with callers of the exported ClientCount
NextCount == HubNext \/ ClientCount
SpecCount == Init /\ [][NextCount]_vars
\* the hub, published to by the health handler and the ticker
SpecHealth == Init /\ [][HealthNext]_vars

\* one request to the log adapter that nobody cancels: a bounded fetch or a
\* live follow
SpecLog == Init /\ [][LogNext]_vars

\* one bounded fetch
SpecFetch == Init /\ [][FetchOnceNext]_vars

\* one call of FollowLogs, with cancellation
SpecFollow == Init /\ [][FollowNext]_vars

\* one stream request to the handler whose source ends
SpecSourceEnd == Init /\ [][SourceEndNext]_vars

\* two stream requests to the handler side by side
SpecTwo == Init /\ [][TwoNext]_vars

\* one stream request to the handler, with cancellation
SpecStream == Init /\ [][StreamNext]_vars

\* bounded fetches, one or two with the same arguments over the same output
SpecFetchTwice == Init /\ [][FetchNext]_vars

\* one request with a level parameter
SpecLevels == Init /\ [][LevelsNext]_vars

\* GetLogs building the arguments of journalctl
SpecArgs == Init /\ [][ArgsNext]_vars

\* callers of GetServiceStatus and of ControlService side by side
SpecService == Init /\ [][ServiceNext]_vars

\* one request to a file handler
SpecFiles == Init /\ [][FilesNext]_vars

\* bounded fetches, one or two with any filters over the same output
SpecRefilter == Init /\ [][RefilterNext]_vars

(***************************************************************************)
(* Properties of the hub                                                   *)
(***************************************************************************)
\* what the hub has handed to client c so far: taken by writePump, or still
\* in its outbox
Delivered(c) == received[c] \o send[c]

OkSeq(s) == SelectSeq(s, LAMBDA m : m.ok)

MarshalAll(s) == [i \in 1..Len(s) |-> Marshal(s[i])]

\* the envelopes Run took from the broadcast channel while c was in the map
Window(c) ==
    SubSeq(processed, regAt[c] + 1,
           IF remAt[c] >= 0 THEN remAt[c] ELSE Len(processed))

Seqs(s) == {s[i].seq : i \in 1..Len(s)}

\* a step in which Broadcast finds the channel full
BroadcastOnFull == nBroadcast' = nBroadcast + 1 /\ Len(broadcast) >= BroadcastCap

\* C1 as stated: a subscriber never dropped for overflow is handed no
\* envelope whose Broadcast call preceded the return of its register send,
\* and once the hub has nothing buffered a registered one has been handed
\* every envelope published since.
C1_AsStated ==
    \A c \in Clients :
        (regAt[c] >= 0 /\ ~overflowed[c]) =>
            /\ \A i \in 1..Len(Delivered(c)) : Delivered(c)[i].json > regCallAt[c]
            /\ (c \in clients /\ broadcast = <<>>) =>
                   \A s \in (regCallAt[c] + 1)..nBroadcast :
                       \E i \in 1..Len(Delivered(c)) : Delivered(c)[i].json = s

\* C1 (amended): a subscriber never dropped for overflow has been handed
\* exactly the serialisable envelopes that Run took from the broadcast channel
\* between handling its register and handling its unregister, in that order.
C1_DeliveredIsWindow ==
    \A c \in Clients :
        (regAt[c] >= 0 /\ ~overflowed[c]) =>
            Delivered(c) = MarshalAll(OkSeq(Window(c)))

\* a client that was handed an envelope published before it registered, and
\* that missed one processed outside its window
C1_Witness ==
    \E c \in Clients :
        /\ regAt[c] >= 0 /\ ~overflowed[c]
        /\ Len(Delivered(c)) >= 1
        /\ Delivered(c)[1].json <= regCallAt[c]
        /\ Len(Window(c)) < Len(processed)

C3_OverflowIsolated ==
    [][(Len(processed') = Len(processed) + 1 /\ processed'[Len(processed')].ok) =>
          /\ \A c \in clients :
                IF Len(send[c]) >= SendCap
                THEN /\ c \notin clients'
                     /\ closeCount'[c] = closeCount[c] + 1
                     /\ send'[c] = send[c]
                ELSE /\ c \in clients'
                     /\ closeCount'[c] = closeCount[c]
                     /\ send'[c] = Append(send[c], Marshal(processed'[Len(processed')]))
          /\ clients' \subseteq clients
          /\ UNCHANGED <<nBroadcast, dropped>>
      ]_vars

\* one client was dropped for overflow by an envelope that another client
\* was handed
C3_Witness ==
    \E c, d \in Clients :
        /\ overflowed[c] /\ d \in clients
        /\ \E i \in 1..Len(Delivered(d)) :
               Delivered(d)[i] = Marshal(processed[remAt[c]])

\* the serialisable envelopes processed since c registered
OkSince(c) == OkSeq(SubSeq(processed, regAt[c] + 1, Len(processed)))

\* C4: a client that has drained nothing and was not unregistered by its
\* readPump is registered exactly as long as at most SendCap serialisable
\* envelopes were processed since its registration; the envelope that drops
\* it is the (SendCap+1)-th; and a client registered at the same point that
\* is not dropped has been handed all SendCap+1 of them.
C4_DroppedAtCapPlusOne ==
    /\ \A c \in Clients :
          (regAt[c] >= 0 /\ received[c] = <<>> /\ (remAt[c] = -1 \/ overflowed[c])) =>
              /\ (c \in clients) <=> (Len(OkSince(c)) <= SendCap)
              /\ overflowed[c] =>
                    /\ processed[remAt[c]].ok
                    /\ Len(OkSeq(SubSeq(processed, regAt[c] + 1, remAt[c]))) = SendCap + 1
    /\ \A c, d \in Clients :
          (/\ c # d /\ overflowed[c] /\ Len(Delivered(c)) = SendCap
           /\ regAt[d] = regAt[c] /\ ~overflowed[d]
           /\ (remAt[d] = -1 \/ remAt[d] >= remAt[c])) =>
              /\ Len(Delivered(d)) >= SendCap + 1
              /\ SubSeq(Delivered(d), 1, SendCap + 1) =
                     MarshalAll(OkSeq(SubSeq(processed, regAt[c] + 1, remAt[c])))

C4_Witness ==
    \E c, d \in Clients :
        /\ overflowed[c] /\ received[c] = <<>> /\ Len(send[c]) = SendCap
        /\ regAt[d] = regAt[c] /\ d \in clients
        /\ Len(received[d]) >= SendCap

\* C5: Broadcast can always be taken (it never waits), and a Broadcast that
\* finds the channel full leaves the subscriber set, the outboxes and the
\* buffered publications as they were and discards the new envelope.
C5_BroadcastNeverBlocks ==
    /\ []((~panicked /\ nBroadcast < MaxPub) => ENABLED (\E ok \in BOOLEAN : Broadcast(ok)))
    /\ [][BroadcastOnFull =>
            /\ UNCHANGED <<clients, send, closeCount, broadcast, processed>>
            /\ dropped' = dropped \cup {nBroadcast'}
         ]_vars

C5_Witness ==
    /\ dropped # {}
    /\ clients # {}
    /\ Len(broadcast) = BroadcastCap

\* C6 as stated: on a full channel the oldest buffered publication is evicted
\* and the new envelope is the one kept.
C6_AsStated ==
    [][BroadcastOnFull =>
          /\ broadcast'[Len(broadcast')].seq = nBroadcast'
          /\ Head(broadcast).seq \notin Seqs(broadcast')
      ]_vars

\* C6 (amended): on a full channel the new envelope is the one discarded; the
\* buffered publications, the oldest included, are all kept for delivery.
C6_NewestDiscarded ==
    [][BroadcastOnFull =>
          /\ nBroadcast' \notin Seqs(broadcast')
          /\ Seqs(broadcast) \subseteq Seqs(broadcast')
          /\ Head(broadcast') = Head(broadcast)
      ]_vars

\* an older envelope was processed after a newer one had been discarded
C6_Witness ==
    \E s \in dropped :
        /\ Len(processed) >= 1
        /\ processed[Len(processed)].seq < s
        /\ s \notin Seqs(processed) \cup Seqs(broadcast)

\* C7: an outbox is closed at most once and never panics the hub; an
\* unregister request for a client that is in the set removes it and closes
\* its outbox, and one for a client no longer in the set (dropped for
\* overflow) changes nothing of the hub.
C7_UnregisterIdempotent ==
    /\ [](~panicked /\ \A c \in Clients : closeCount[c] <= 1)
    /\ [][\A c \in Clients :
            (pcRead[c] = "unregistering" /\ pcRead'[c] = "done") =>
                IF c \in clients
                THEN /\ clients' = clients \ {c}
                     /\ closeCount' = [closeCount EXCEPT ![c] = 1]
                     /\ UNCHANGED <<send, broadcast, processed>>
                ELSE UNCHANGED <<clients, send, closeCount, broadcast, processed>>
         ]_vars

\* a client dropped for overflow whose later unregister request was handled
C7_Witness ==
    \E c \in Clients :
        overflowed[c] /\ pcRead[c] = "done" /\ closeCount[c] = 1

\* C8 as stated: only the control loop (Run) touches the subscriber set.
C8_AsStated == setAccess \subseteq {"Run"}

(***************************************************************************)
(* Claims about the log adapter                                            *)
(***************************************************************************)
\* the lines as parseLogs looks at them: trimmed, the empty ones left out
TrimmedLines(ls) ==
    SelectSeq([i \in 1..Len(ls) |-> TrimSpace(ls[i])], LAMBDA l : l # <<>>)

HeaderIdx(ls) == {i \in 1..Len(ls) : FindHeader(ls[i]) # <<>>}

\* the index of the first header after line i, Len(ls) + 1 when there is none
NextHeader(ls, i) ==
    LET later == {j \in HeaderIdx(ls) : j > i} \cup {Len(ls) + 1}
    IN CHOOSE j \in later : \A k \in later : j <= k

\* lines i..j of ls, a newline in front of each
RECURSIVE Continuation(_, _, _)
Continuation(ls, i, j) ==
    IF i > j THEN <<>> ELSE <<"\n">> \o ls[i] \o Continuation(ls, i + 1, j)

\* level and message of the record that the header at line i of ls opens
RecordAt(ls, i) ==
    [Level |-> FindHeader(ls[i])[1].level,
     Message |-> FindHeader(ls[i])[1].text
                   \o Continuation(ls, i + 1, NextHeader(ls, i) - 1)]

LevelAndMessage(e) == [Level |-> e.Level, Message |-> e.Message]

\* es holds, in some order, exactly one entry for each header line of ls
OnePerHeader(es, ls) ==
    /\ Len(es) = Cardinality(HeaderIdx(ls))
    /\ \A i \in HeaderIdx(ls) :
          Cardinality({k \in 1..Len(es) : LevelAndMessage(es[k]) = RecordAt(ls, i)})
            = Cardinality({j \in HeaderIdx(ls) : RecordAt(ls, j) = RecordAt(ls, i)})

FetchedUnfiltered == logPc = "fetchDone" /\ fFilter = NoFilter

\* C9 as stated: with no filter a bounded fetch returns exactly one entry for
\* each raw line that matches the header pattern, its message the header's
\* text followed by every raw non-header line before the next header, each
\* after a single newline.
C9_AsStated == FetchedUnfiltered => OnePerHeader(fOut, SplitLines(fRaw))

\* C9 (amended): the same of the lines once each is trimmed of surrounding
\* whitespace and the empty ones are left out: one entry for each such line
\* that matches the header pattern, its message the header's text followed by
\* every trimmed non-empty non-header line before the next header, each after
\* a single newline; the entries are returned in the order the sort by
\* timestamp leaves them in.
C9_OnePerTrimmedHeader ==
    FetchedUnfiltered => OnePerHeader(fOut, TrimmedLines(SplitLines(fRaw)))

\* an unfiltered fetch returned two entries, one with continuation lines,
\* from an output that held an indented line
C9_Witness ==
    /\ FetchedUnfiltered
    /\ Len(fOut) = 2
    /\ \E k \in 1..Len(fOut) : Contains(fOut[k].Message, <<"\n">>)
    /\ Contains(fRaw, <<"\n", "\t">>)

\* the next line parseLogs looks at is a header and an entry is pending
FetchHeaderOnPending ==
    /\ logPc = "parse"
    /\ fLines # <<>>
    /\ fLines' = Tail(fLines)
    /\ fCur # <<>>
    /\ FindHeader(TrimSpace(Head(fLines))) # <<>>

\* the next line FollowLogs looks at is a header and an entry is pending
FollowHeaderOnPending ==
    /\ logPc = "folLines"
    /\ folLines # <<>>
    /\ folLines' = Tail(folLines)
    /\ folCur # <<>>
    /\ FindHeader(TrimSpace(Head(folLines))) # <<>>

\* the entry a header line opens, its timestamp read off the clock after the
\* step when the text of the timestamp is no time
Opened(line) ==
    LET match == FindHeader(TrimSpace(line))[1]
    IN [Timestamp |-> IF ParseTime(match.ts) = <<>> THEN now' ELSE ParseTime(match.ts)[1],
        Level |-> match.level,
        Message |-> match.text]

\* the fetch path on a header read while an entry is pending: the pending
\* entry leaves currentEntry, goes to the result if it passes the filter, and
\* the header opens an entry of its own
FetchFlushes ==
    FetchHeaderOnPending =>
        /\ fEntries' = IF Passes(fCur[1], fFilter)
                       THEN Append(fEntries, fCur[1]) ELSE fEntries
        /\ fCur' = <<Opened(Head(fLines))>>

\* C10 as stated: on both paths a header read while an entry is pending
\* flushes and emits the pending entry and opens an entry of its own.
C10_AsStated ==
    /\ [][FetchFlushes]_vars
    /\ [][FollowHeaderOnPending =>
            /\ folCalls' = Append(folCalls, folCur[1])
            /\ folCur' = <<Opened(Head(folLines))>>
         ]_vars

\* C10 (amended): on the fetch path a header read while an entry is pending
\* flushes it (it is emitted if it passes the filter) and opens an entry of
\* its own; on the follow path it does so unless the header has the timestamp
\* and the level of the pending entry, in which case nothing is emitted and
\* the header's text is appended to the pending message after a newline.
C10_FlushUnlessSameRecord ==
    /\ [][FetchFlushes]_vars
    /\ [][FollowHeaderOnPending =>
            IF /\ Opened(Head(folLines)).Timestamp = folCur[1].Timestamp
               /\ Opened(Head(folLines)).Level = folCur[1].Level
            THEN /\ folCalls' = folCalls
                 /\ folCur' = <<[folCur[1] EXCEPT !.Message =
                                   @ \o <<"\n">> \o Opened(Head(folLines)).Message]>>
            ELSE /\ folCalls' = Append(folCalls, folCur[1])
                 /\ folCur' = <<Opened(Head(folLines))>>
         ]_vars

\* the follow path read a second header of another level at the same
\* timestamp, emitted the pending entry and holds the new one
C10_Witness ==
    /\ folHeaders = 2
    /\ Len(folCalls) = 1
    /\ folCur # <<>>
    /\ folCur[1].Timestamp = folCalls[1].Timestamp
    /\ folCur[1].Level # folCalls[1].Level

\* the lines of the output as parseLogs looks at them
FetchedLines == TrimmedLines(SplitLines(fRaw))

\* parseLogs looks at a non-empty non-header line and no header was seen yet
StrayRead ==
    /\ logPc = "parse"
    /\ fLines # <<>>
    /\ fLines' = Tail(fLines)
    /\ fCur = <<>>
    /\ TrimSpace(Head(fLines)) # <<>>
    /\ FindHeader(TrimSpace(Head(fLines))) = <<>>

OccursIgnoringCase(text, s) ==
    \E i \in 0..(Len(text) - Len(s)) :
        \A k \in 1..Len(s) : LowerChar(text[i + k]) = LowerChar(s[k])

\* the record satisfies every predicate the filter supplies
Satisfies(rec, filter) ==
    /\ filter.Level # <<>> => rec.Level = filter.Level
    /\ filter.Search # <<>> =>
          \/ OccursIgnoringCase(rec.Message, filter.Search)
          \/ OccursIgnoringCase(rec.Level, filter.Search)

\* C12: a bounded fetch returns, whole, exactly the assembled records that
\* satisfy the level and the search predicate of the filter, each evaluated on
\* the whole record (continuation lines included): as many entries as there
\* are such records, and each such record as often as it was assembled.
C12_FilterOnWholeRecord ==
    logPc = "fetchDone" =>
        LET ls == FetchedLines
            recs == {<<i, RecordAt(ls, i)>> : i \in HeaderIdx(ls)}
            kept == {r \in recs : Satisfies(r[2], fFilter)}
        IN /\ Len(fOut) = Cardinality(kept)
           /\ \A r \in kept :
                 Cardinality({k \in 1..Len(fOut) : LevelAndMessage(fOut[k]) = r[2]})
                   = Cardinality({q \in kept : q[2] = r[2]})

\* a fetch with a search text that occurs only in the continuation line of
\* one of two records returned that record, continuation line included
C12_Witness ==
    /\ logPc = "fetchDone"
    /\ fFilter.Search = Str_at
    /\ Cardinality(HeaderIdx(FetchedLines)) = 2
    /\ Len(fOut) = 1
    /\ Contains(fOut[1].Message, <<"\n">> \o Str_at)

RECURSIVE IsSubsequence(_, _)
IsSubsequence(a, b) ==
    IF a = <<>> THEN TRUE
    ELSE IF b = <<>> THEN FALSE
    ELSE IF Head(a) = Head(b) THEN IsSubsequence(Tail(a), Tail(b))
    ELSE IsSubsequence(a, Tail(b))

LevelsAndMessages(es) == [i \in 1..Len(es) |-> LevelAndMessage(es[i])]

\* a second fetch over the same output is done
FetchedTwice == logPc = "fetchDone" /\ fPrev # <<>>

\* C13 as stated: the output of a filtered fetch is a subsequence of the
\* output of the unfiltered fetch over the same input: the same records
\* (level and message) in the same relative order.
C13_AsStated ==
    (FetchedTwice /\ fPrev[1].Filter = NoFilter) =>
        IsSubsequence(LevelsAndMessages(fOut), LevelsAndMessages(fPrev[1].Out))

\* C14: the entries a bounded fetch returns are in non-decreasing order of
\* timestamp, in whatever order the source wrote the lines.
C14_SortedByTimestamp ==
    logPc = "fetchDone" =>
        \A i, j \in 1..Len(fOut) : i < j => fOut[i].Timestamp <= fOut[j].Timestamp

\* a fetch whose source wrote a later record before an earlier one returned
\* them in another order than it assembled them in
C14_Witness ==
    /\ logPc = "fetchDone"
    /\ Len(fOut) >= 2
    /\ fOut # fEntries
    /\ fEntries[1].Timestamp > fEntries[Len(fEntries)].Timestamp

\* e put into the sorted sequence s behind every entry that is not later
InsertBehindEquals(e, s) ==
    LET k == Cardinality({i \in 1..Len(s) : s[i].Timestamp <= e.Timestamp})
    IN SubSeq(s, 1, k) \o <<e>> \o SubSeq(s, k + 1, Len(s))

\* es sorted by timestamp, entries of equal timestamp in the order of es
RECURSIVE StableSorted(_)
StableSorted(es) ==
    IF es = <<>> THEN <<>>
    ELSE InsertBehindEquals(es[Len(es)], StableSorted(SubSeq(es, 1, Len(es) - 1)))

\* C15 as stated: the sort of a bounded fetch is stable: the output is the
\* assembled entries ordered by timestamp, entries of equal timestamp in the
\* order they were assembled in.
C15_AsStated == logPc = "fetchDone" => fOut = StableSorted(fEntries)

\* every header line of the output has a timestamp that time.Parse accepts
AllTimesParse ==
    \A i \in HeaderIdx(FetchedLines) :
        FindHeader(FetchedLines[i])[1].ts \in {"T1", "T2"}

C17_FailsAsAWhole ==
    /\ fErr =>
          /\ logPc = "fetchFailed"
          /\ fOut = <<>> /\ fEntries = <<>> /\ fCur = <<>> /\ fLines = <<>>
          /\ \E err \in RunErrors : fErrText = Errorf(err, <<>>) \o fStderr
    /\ logPc \in {"parse", "fetchDone"} => ~fErr /\ fErrText = <<>>

\* the command was killed after it had written a line to stdout and a
\* diagnostic to stderr
C17_Witness ==
    /\ logPc = "fetchFailed"
    /\ fErr
    /\ fRaw # <<>>
    /\ fStderr = Str_NoEntries
    /\ Contains(fErrText, <<"signal: killed">>)
    /\ fOut = <<>>

\* the lines the source writes, trimmed, the empty ones left out
SourceLines == TrimmedLines(SplitLines(folSource))

\* timestamp text, level and message of the record that the header at line i
\* of ls opens
StampedRecordAt(ls, i) ==
    [Stamp |-> FindHeader(ls[i])[1].ts,
     Level |-> RecordAt(ls, i).Level,
     Message |-> RecordAt(ls, i).Message]

\* the records of the lines ls from line i on, a record whose header has the
\* timestamp text and the level of the one before it joined to that one
RECURSIVE RecordsFrom(_, _, _)
RecordsFrom(ls, i, done) ==
    IF i > Len(ls) THEN done
    ELSE IF i \notin HeaderIdx(ls) THEN RecordsFrom(ls, i + 1, done)
    ELSE LET r == StampedRecordAt(ls, i)
             last == done[Len(done)]
         IN IF done # <<>> /\ last.Stamp = r.Stamp /\ last.Level = r.Level
            THEN RecordsFrom(ls, i + 1,
                             [done EXCEPT ![Len(done)].Message =
                                 @ \o <<"\n">> \o r.Message])
            ELSE RecordsFrom(ls, i + 1, Append(done, r))

\* the records of a stream as they are when every line is parsed whole
WholeLineRecords ==
    LevelsAndMessages(RecordsFrom(SourceLines, 1, <<>>))

\* FollowLogs has read the stream to its end, and every timestamp parses
FollowedToEnd ==
    /\ logPc = "folReturned"
    /\ folErr = "EOF"
    /\ \A i \in HeaderIdx(SourceLines) :
          FindHeader(SourceLines[i])[1].ts \in {"T1", "T2"}

\* C18 as stated: the records delivered do not depend on how the stream is
\* split across the reads: when the stream is read to its end they are the
\* records of its lines, each line parsed as one line.
C18_AsStated == FollowedToEnd => LevelsAndMessages(folCalls) = WholeLineRecords

\* the header FollowLogs looks at has the timestamp and the level of the
\* pending entry
FollowHeaderOfSameRecord ==
    /\ FollowHeaderOnPending
    /\ Opened(Head(folLines)).Timestamp = folCur[1].Timestamp
    /\ Opened(Head(folLines)).Level = folCur[1].Level

\* C19: in follow mode a header with the timestamp and the level of the
\* pending entry opens no entry and emits nothing, its text going to the end
\* of the pending message after a newline; any other header read while an
\* entry is pending passes that entry to the callback and becomes the
\* pending entry.
C19_MergeOrEmit ==
    /\ [][FollowHeaderOfSameRecord =>
            /\ folCalls' = folCalls
            /\ folCur'[1].Timestamp = folCur[1].Timestamp
            /\ folCur'[1].Level = folCur[1].Level
            /\ folCur'[1].Message =
                  folCur[1].Message \o <<"\n">> \o Opened(Head(folLines)).Message
         ]_vars
    /\ [][(FollowHeaderOnPending /\ ~FollowHeaderOfSameRecord) =>
            /\ Len(folCalls') = Len(folCalls) + 1
            /\ folCalls'[Len(folCalls')] = folCur[1]
            /\ SubSeq(folCalls', 1, Len(folCalls)) = folCalls
            /\ folCur' = <<Opened(Head(folLines))>>
         ]_vars

\* two headers of the same timestamp and level were read: nothing is emitted
\* and the pending message is the two texts with a newline between them
C19_Witness ==
    /\ folHeaders = 2
    /\ folCalls = <<>>
    /\ folCur # <<>>
    /\ folCur[1].Timestamp = 1
    /\ folCur[1].Message = <<"b", "o", "o", "m", "\n", "O", "k">>

\* the entry is the one streamLogs makes of an error of FollowLogs
IsSynthetic(e) ==
    /\ e.Level = Str_ERROR
    /\ e.Message # <<>>
    /\ e.Message[1] = "Log stream error: "

\* C20 as stated: in follow mode the records delivered to the caller are the
\* completed records that satisfy the predicate of bounded fetch: level equal
\* to the level asked for, search text occurring without regard to case.
C20_AsStated ==
    SelectSeq(folSent, LAMBDA e : ~IsSynthetic(e))
        = SelectSeq(folCalls, LAMBDA e : Satisfies(e, folFilter))

\* C21 as stated: when FollowLogs returns after the caller cancelled, at
\* whatever moment, the external process has been terminated and its output
\* pipe released.
C21_AsStated ==
    (logPc = "folReturned" /\ ctxDone) => (proc # "running" /\ ~pipeOpen)

\* the follow run ended because the caller cancelled: FollowLogs returned the
\* error of the context, or the end of file that the kill of its process made
EndedByCancel ==
    /\ logPc \in {"folReturned", "streamDone"}
    /\ ctxDone
    /\ \/ folErr \in {"context canceled", "start error: context canceled"}
       \/ folErr = "EOF" /\ proc = "killed"

\* C22 as stated: when a live tail ends because the caller cancelled, no
\* synthetic ERROR record is produced for it.
C22_AsStated ==
    EndedByCancel => \A k \in 1..Len(folSent) : ~IsSynthetic(folSent[k])

\* stdout.Read returns an error: FollowLogs leaves its loop
ReadFails == logPc = "folRead" /\ logPc' = "folReturned"

\* the number of entries of s that streamLogs made of an error
Synthetics(s) == Cardinality({k \in 1..Len(s) : IsSynthetic(s[k])})

\* C23: when the read of the source's pipe fails during follow, the pending
\* entry, if there is one, is passed to the callback and FollowLogs returns
\* the error; until the error is surfaced no synthetic entry was sent; it is
\* surfaced as one entry of level ERROR, the last that is ever sent; and the
\* handler has not returned unless the client cancelled.
C23_FlushThenOneError ==
    /\ [][ReadFails =>
            /\ folCalls' = IF folCur # <<>> THEN Append(folCalls, folCur[1])
                           ELSE folCalls
            /\ folErr' # ""
            /\ Synthetics(folSent') = 0
         ]_vars
    /\ [](logPc = "folReturned" => Synthetics(folSent) = 0)
    /\ []((logPc = "streamDone" /\ folErr = "EOF") =>
            /\ Synthetics(folSent) = 1
            /\ IsSynthetic(folSent[Len(folSent)])
            /\ folSent[Len(folSent)].Message = <<"Log stream error: ", "EOF">>)
    /\ [][logPc = "streamDone" => folSent' = folSent /\ logPc' = "streamDone"]_vars
    /\ [](hReturned => ctxDone)

\* the source ended while an entry was pending after another had been
\* delivered: both were sent, then the one ERROR entry, and the handler has
\* not returned
C23_Witness ==
    /\ logPc = "streamDone"
    /\ folErr = "EOF"
    /\ proc = "exited"
    /\ ~ctxDone /\ ~hReturned
    /\ Len(folCalls) = 2
    /\ folCur = <<folCalls[2]>>
    /\ Len(folSent) = 3
    /\ folSent[2] = folCalls[2]
    /\ IsSynthetic(folSent[3])

\* the variables of stream request r
View(r) == IF r = rid THEN Request ELSE other

\* the records of the lines that make the stream src
RecordsOf(src) ==
    LevelsAndMessages(RecordsFrom(TrimmedLines(SplitLines(src)), 1, <<>>))

\* the same for each stream that a request out of two can have
ShortRecords ==
    [src \in {Unlines(ls) : ls \in ShortStreams} \cup {<<>>} |-> RecordsOf(src)]

\* what request r has passed to its callback and what it holds back while
\* FollowLogs runs are records of its own source, in the order of the source
OwnDeliveries(r) ==
    LET v == View(r)
        calls == LevelsAndMessages(v.folCalls)
        recs == ShortRecords[v.folSource]
    IN /\ Len(calls) <= Len(recs)
       /\ calls = SubSeq(recs, 1, Len(calls))
       /\ (v.folCur # <<>> /\ v.folErr = "") =>
             /\ Len(calls) < Len(recs)
             /\ LevelAndMessage(v.folCur[1]) = recs[Len(calls) + 1]

\* C24: of two stream requests that run side by side each has its own
\* process, pipe, pending entry and deliveries: a step of one request, its
\* cancellation, the kill of its process and the failure of its read
\* included, changes nothing of the other; passing from one request to the
\* other changes nothing of either; and each request delivers and holds back
\* records of its own source only.
C24_OwnProcessAndState ==
    /\ [][\A r \in {1, 2} : View(r)' # View(r) => View(3 - r)' = View(3 - r)]_vars
    /\ [][rid' # rid => \A r \in {1, 2} : View(r)' = View(r)]_vars
    /\ [](\A r \in {1, 2} : OwnDeliveries(r))

\* request 1 was cancelled and FollowLogs has returned in it, its process
\* killed, while request 2, of another stream, runs on with one record
\* delivered and one pending
C24_Witness ==
    /\ View(1).ctxDone
    /\ View(1).logPc = "streamDone"
    /\ View(1).proc = "killed"
    /\ View(1).folSource = Unlines(<<LineError1b>>)
    /\ ~View(2).ctxDone
    /\ View(2).proc = "running"
    /\ View(2).logPc = "folRead"
    /\ Len(View(2).folCalls) = 1
    /\ View(2).folCur # <<>>
    /\ Len(View(2).folSent) = 1

\* how often the envelope numbered n is in the sequence s
Occurrences(s, n) == Cardinality({i \in 1..Len(s) : s[i].seq = n})

Within(base, p) == Len(p) >= Len(base) /\ SubSeq(p, 1, Len(base)) = base

\* what sanitizePath returns, whenever it does not fail, is the base
\* directory or a path written below it
C26_ReturnedBelowBase ==
    fsPc \in {"sanitized", "done"} => Within(fsBase, fsPath)

\* C26 as stated: sanitizePath fails or returns the base directory or a path
\* below it, and no place on disk that a file handler (list, read, write,
\* delete, create directory) acts on is outside the base directory.
C26_AsStated ==
    /\ fsPc \in {"sanitized", "done"} => Within(fsBase, fsPath)
    /\ fsPc = "done" => \A p \in fsActed : Within(fsBase, p)

\* the envelope numbered n is in the sequence s
Holds(s, n) == \E i \in 1..Len(s) : s[i].seq = n

\* C27: Run never waits for a subscriber: whatever the outboxes hold, the
\* case of an envelope in the buffer, of a pending register and of a pending
\* unregister is ready; hence, with Run scheduled fairly and nothing assumed
\* about the pumps, every envelope Broadcast put in the buffer is taken out
\* and fanned out in the end, and every pending register and unregister is
\* handled in the end.
C27_NeverBlocks ==
    /\ [](broadcast # <<>> => ENABLED HubBroadcast)
    /\ [](\A c \in Clients : pcHandle[c] = "registering" => ENABLED HubRegister(c))
    /\ [](\A c \in Clients : pcRead[c] = "unregistering" => ENABLED HubUnregister(c))
    /\ \A n \in 1..MaxPub : Holds(broadcast, n) ~> Holds(processed, n)
    /\ \A c \in Clients : (pcHandle[c] = "registering") ~> (pcHandle[c] = "done")
    /\ \A c \in Clients : (pcRead[c] = "unregistering") ~> (pcRead[c] = "done")

\* a subscriber whose pump never took anything was removed for its full
\* outbox, and every envelope published was accepted and fanned out; another
\* subscriber was registered while that outbox was full, and its unregister
\* was handled
C27_Witness ==
    /\ \E c \in Clients :
          /\ overflowed[c] /\ received[c] = <<>> /\ pcWrite[c] = "running"
          /\ \E d \in Clients \ {c} :
                /\ regAt[d] > regAt[c] /\ regAt[d] < remAt[c]
                /\ pcRead[d] = "done"
    /\ Len(processed) = MaxPub
    /\ dropped = {}

\* the outbox of c was closed: Run removed the client
Removed(c) == closeCount[c] > 0

TokenOf(line) ==
    LET close == CHOOSE m \in 8..Len(line) :
                    line[m] = "]" /\ \A p \in 8..(m - 1) : line[p] # "]"
    IN  SubSeq(line, 8, close - 1)

UsualLevels ==
    {<<"D", "E", "B", "U", "G">>, Str_INFO, <<"W", "A", "R", "N">>, Str_ERROR,
     <<"F", "A", "T", "A", "L">>}

\* the level parameter is absent or is, character for character, the level
LevelMatches(level, filter) == filter.Level = <<>> \/ level = filter.Level

\* C29: a line that matches the header pattern makes, in parseLogs and in
\* FollowLogs, a pending record whose level is the level token of the line
\* as written, whether or not it is one of DEBUG, INFO, WARN, ERROR, FATAL;
\* a fetch returns one entry for each header whose token is, character for
\* character, the level parameter (every header when there is none), and a
\* stream passes to sendEvent exactly the entries given to the callback whose
\* level is the level parameter, character for character.
C29_LevelVerbatimAndExact ==
    /\ [][(/\ logPc = "parse" /\ fLines # <<>> /\ fLines' = Tail(fLines)
           /\ FindHeader(TrimSpace(Head(fLines))) # <<>>) =>
              /\ fCur' # <<>>
              /\ fCur'[1].Level = TokenOf(TrimSpace(Head(fLines)))
         ]_vars
    /\ [][(/\ logPc = "folLines" /\ folLines # <<>> /\ folLines' = Tail(folLines)
           /\ FindHeader(TrimSpace(Head(folLines))) # <<>>) =>
              /\ folCur' # <<>>
              /\ folCur'[1].Level = TokenOf(TrimSpace(Head(folLines)))
         ]_vars
    /\ [](logPc = "fetchDone" =>
            LET ls == FetchedLines
            IN  /\ Len(fOut) = Cardinality({i \in HeaderIdx(ls) :
                                    LevelMatches(TokenOf(ls[i]), fFilter)})
                /\ \A k \in 1..Len(fOut) : LevelMatches(fOut[k].Level, fFilter))
    /\ [](SelectSeq(folSent, LAMBDA e : ~IsSynthetic(e))
            = SelectSeq(folCalls, LAMBDA e : LevelMatches(e.Level, folFilter)))

\* a fetch with level=TRACE over an output with an INFO header and a TRACE
\* header returned the TRACE record alone, its level as written
C29_Witness ==
    /\ logPc = "fetchDone"
    /\ fFilter.Level = Str_TRACE
    /\ Str_TRACE \notin UsualLevels
    /\ \E i, j \in HeaderIdx(FetchedLines) :
          /\ TokenOf(FetchedLines[i]) = Str_INFO
          /\ TokenOf(FetchedLines[j]) = Str_TRACE
    /\ Len(fOut) = 1
    /\ fOut[1].Level = Str_TRACE

\* a stream with level=info was given an INFO and a TRACE entry by
\* FollowLogs and passed neither to sendEvent
C29_WitnessFollow ==
    /\ logPc = "streamDone"
    /\ folFilter.Level = Str_info
    /\ \E i, j \in 1..Len(folCalls) :
          folCalls[i].Level = Str_INFO /\ folCalls[j].Level = Str_TRACE
    /\ SelectSeq(folSent, LAMBDA e : ~IsSynthetic(e)) = <<>>

\* the line matches the header pattern and its date and time are no calendar
\* time
BadTimeHeader(line) == FindHeader(line) # <<>> /\ line[1] = "TX"

\* the text of a header line after the level group
TextOf(line) ==
    LET close == CHOOSE m \in 8..Len(line) :
                    line[m] = "]" /\ \A p \in 8..(m - 1) : line[p] # "]"
    IN  SubSeq(line, close + 2, Len(line))

\* the record a header line starts when time.Now() returns t
StartedAt(line, t) ==
    [Timestamp |-> t, Level |-> TokenOf(line), Message |-> TextOf(line)]

\* parseLogs looks at a header line whose date and time do not parse
FetchReadsBadTime ==
    /\ logPc = "parse" /\ fLines # <<>> /\ fLines' = Tail(fLines)
    /\ BadTimeHeader(TrimSpace(Head(fLines)))

\* FollowLogs looks at a header line whose date and time do not parse
FollowReadsBadTime ==
    /\ logPc = "folLines" /\ folLines # <<>> /\ folLines' = Tail(folLines)
    /\ BadTimeHeader(TrimSpace(Head(folLines)))

\* the pending entry, if any, added to the entries given to the callback
Flushed(calls, cur) == IF cur # <<>> THEN Append(calls, cur[1]) ELSE calls

\* C30 as stated: a line that matches the header pattern and whose date and
\* time are no calendar time starts a record of its own, stamped with the
\* current time, in parseLogs and in FollowLogs: it is not dropped and not
\* appended to the pending record.
C30_AsStated ==
    /\ [][FetchReadsBadTime =>
            /\ now' \in {now, now + 1}
            /\ fCur' = <<StartedAt(TrimSpace(Head(fLines)), now')>>
         ]_vars
    /\ [][FollowReadsBadTime =>
            /\ now' \in {now, now + 1}
            /\ folCur' = <<StartedAt(TrimSpace(Head(folLines)), now')>>
            /\ folCalls' = Flushed(folCalls, folCur)
         ]_vars

\* C30 (amended): in parseLogs such a line always starts a record of its own,
\* stamped with the current time, and an unfiltered fetch returns one entry
\* with a current-time stamp for each such line.  In FollowLogs it starts a
\* record of its own, stamped with the current time, the pending record
\* going to the callback, unless the pending record has that very time and
\* the same level: then the text of the line is appended to the pending
\* record after a newline and no record is started.
C30_FallbackToNow ==
    /\ [][FetchReadsBadTime =>
            /\ now' \in {now, now + 1}
            /\ fCur' = <<StartedAt(TrimSpace(Head(fLines)), now')>>
         ]_vars
    /\ [](logPc = "fetchDone" /\ fFilter = NoFilter =>
            Cardinality({k \in 1..Len(fOut) : fOut[k].Timestamp >= 3})
              = Cardinality({i \in 1..Len(FetchedLines) :
                                BadTimeHeader(FetchedLines[i])}))
    /\ [][FollowReadsBadTime =>
            LET line == TrimSpace(Head(folLines))
            IN  /\ now' \in {now, now + 1}
                /\ IF /\ folCur # <<>>
                      /\ folCur[1].Timestamp = now'
                      /\ folCur[1].Level = TokenOf(line)
                   THEN /\ folCur' = <<[folCur[1] EXCEPT !.Message =
                                          @ \o <<"\n">> \o TextOf(line)]>>
                        /\ folCalls' = folCalls
                   ELSE /\ folCur' = <<StartedAt(line, now')>>
                        /\ folCalls' = Flushed(folCalls, folCur)
         ]_vars

\* a followed source wrote a header with a valid time and then one whose time
\* does not parse: both records went to the callback, the second stamped
\* with the current time
C30_Witness ==
    /\ Len(folCalls) = 2
    /\ folCalls[1].Timestamp < 3
    /\ folCalls[2].Timestamp >= 3
    /\ folCalls[2].Message = <<"w">>

\* a fetch returned the record of a header whose time does not parse, stamped
\* with the current time, and sorted after a record with a valid time that
\* came later in the output
C30_WitnessFetch ==
    /\ logPc = "fetchDone"
    /\ FetchedLines # <<>>
    /\ BadTimeHeader(FetchedLines[1])
    /\ Len(fOut) = 2
    /\ fOut[1].Timestamp < 3
    /\ fOut[2].Timestamp >= 3

\* the text is digits followed by one of m, h, d
IsRelative(s) ==
    /\ Len(s) >= 2
    /\ \A k \in 1..(Len(s) - 1) : s[k] \in {"0", "1", "2", "3", "4", "5", "6", "7", "8", "9"}
    /\ s[Len(s)] \in {"m", "h", "d"}

\* the word journalctl is given for a unit letter
UnitWords(u) ==
    CASE u = "m" -> Str_MinutesAgo [] u = "h" -> Str_HoursAgo [] u = "d" -> Str_DaysAgo

\* the index of the argument "--since" in args, 0 when it is not there
SinceAt(args) ==
    LET at == {i \in 1..Len(args) : args[i] = Str_since}
    IN  IF at = {} THEN 0 ELSE CHOOSE i \in at : TRUE

C32_AsStated ==
    \A i \in Callers :
        gPc[i] = "returned" => gRet[i] >= gStartDone[i]

\* caller i enters GetServiceStatus in this step
Enters(i) ==
    /\ gPc[i] \in {"idle", "returned", "failed"}
    /\ gPc'[i] \in {"returned", "querying"}
    /\ \A j \in Callers \ {i} :
          /\ gPc'[j] = gPc[j] /\ gRet'[j] = gRet[j]
          /\ gQueried'[j] = gQueried[j] /\ gStartDone'[j] = gStartDone[j]
    /\ UNCHANGED <<svcNow, ctlPc, ctlRet>>

\* a call writes the cache in this step
Refreshes == \E i \in Callers : gPc[i] = "sampled" /\ gPc'[i] = "returned"

\* systemctl show fails for a call in this step
RefreshFails == \E i \in Callers : gPc[i] = "querying" /\ gPc'[i] = "failed"

\* a ControlService call returns an error in this step
ControlFails ==
    /\ ctlPc = "idle" /\ ctlPc' = "idle"
    /\ ctlRet' \in {"invalid action", "failed"}
    /\ UNCHANGED <<gPc, svcNow>>

\* a ControlService call returns nil in this step
ControlSucceeds == ctlPc = "ran" /\ ctlPc' = "idle"

CacheUnchanged == UNCHANGED <<serviceStatusCache, serviceCacheTime>>

SourceRecords ==
    [src \in {Unlines(ls) : ls \in SeqsUpTo(FollowRawLines, MaxFollowLines)} |->
        RecordsOf(src)]

\* every stdout.Read so far ended at the end of a line and every timestamp of
\* the stream parses, so that the records of the stream are those of its lines
WholeLinesRead ==
    /\ folSplits = 0
    /\ \A i \in HeaderIdx(SourceLines) :
          FindHeader(SourceLines[i])[1].ts \in {"T1", "T2"}

\* s is the beginning of t
IsPrefix(s, t) == Len(s) <= Len(t) /\ s = SubSeq(t, 1, Len(s))

\* what was passed to the callback is the beginning of the records of the
\* source, the pending entry is the record after them as far as it is read,
\* and after the failure of the read nothing is held back
DeliveredInSourceOrder ==
    LET calls == LevelsAndMessages(folCalls)
        recs == SourceRecords[folSource]
    IN /\ IsPrefix(calls, recs)
       /\ (folCur # <<>> /\ folErr = "") =>
             /\ Len(calls) < Len(recs)
             /\ folCur[1].Level = recs[Len(calls) + 1].Level
             /\ IsPrefix(folCur[1].Message, recs[Len(calls) + 1].Message)
       /\ (folCur = <<>> /\ folErr = "") => calls = <<>>
       /\ (logPc = "folReturned" /\ folErr = "EOF") => calls = recs

\* the pending entry goes on: same timestamp and level, its message longer
PendingExtended ==
    /\ Len(folCur') = 1
    /\ folCur'[1].Timestamp = folCur[1].Timestamp
    /\ folCur'[1].Level = folCur[1].Level
    /\ IsPrefix(folCur[1].Message, folCur'[1].Message)

\* C34: during a follow run at most one assembled entry is held back; the
\* callback gets an entry only as the pending one, appended once after what it
\* got before, and only when a header of another timestamp or level is read
\* or when the read fails; a pending entry is never replaced without having
\* been passed on; and when the reads end at line ends what was passed on is
\* the beginning of the records of the source, in their order, the pending
\* entry being the next of them.
C34_OneWithheld ==
    /\ [](Len(folCur) <= 1)
    /\ [][folCalls' # folCalls =>
            /\ folCur # <<>>
            /\ folCalls' = Append(folCalls, folCur[1])
            /\ \/ FollowHeaderOnPending /\ ~FollowHeaderOfSameRecord
               \/ ReadFails
         ]_vars
    /\ [][(folCur # <<>> /\ folCur' # folCur) =>
            \/ folCalls' = Append(folCalls, folCur[1])
            \/ folCalls' = folCalls /\ PendingExtended
         ]_vars
    /\ [](WholeLinesRead => DeliveredInSourceOrder)

\* one record was passed to the callback and the next one is held back while
\* the run goes on
C34_Witness ==
    /\ WholeLinesRead
    /\ logPc \in {"folTop", "folRead", "folLines"}
    /\ Len(folCalls) = 1
    /\ folCur # <<>>
    /\ LevelAndMessage(folCur[1]) # LevelAndMessage(folCalls[1])
    /\ Len(SourceRecords[folSource]) = 2

\* the read failed and the record that was held back went to the callback last
C34_WitnessFlushed ==
    /\ WholeLinesRead
    /\ logPc = "folReturned"
    /\ folErr = "EOF"
    /\ Len(folCalls) = 2
    /\ folCalls[2] = folCur[1]
\* C35 as stated: nothing is written to the response after streamLogs has
\* returned: once the context of the request is cancelled the goroutine calls
\* sendEvent no more, neither for a pending entry nor for an entry it makes
\* of an error.
C35_AsStated == [][(ctxDone \/ hReturned) => folSent' = folSent]_vars
\* readPump got an error from ReadMessage
ReadFailed(c) == pcRead[c] = "unregistering"

\* writePump got an error from WriteMessage
WriteFailed(c) == pcWrite[c] = "failed"

\* the client is out of Hub.clients and its outbox is closed
RemovedAndClosed(c) == c \notin clients /\ closeCount[c] = 1

\* C36: with Run and the read pumps scheduled fairly, a client whose
\* connection failed, the failure seen by readPump as a read error or by
\* writePump as a write error, is in the end out of the subscriber set with
\* its outbox closed, and stays so.
C36_FailedClientRemoved ==
    /\ \A c \in Clients : ReadFailed(c) ~> RemovedAndClosed(c)
    /\ \A c \in Clients : WriteFailed(c) ~> RemovedAndClosed(c)
    /\ [][\A c \in Clients : RemovedAndClosed(c) => RemovedAndClosed(c)']_vars

\* a write failed while the client was registered with its read pump waiting
\* for a message, and the client was removed by the unregister that followed
C36_Witness ==
    \E c \in Clients :
        /\ WriteFailed(c)
        /\ pcRead[c] = "done"
        /\ ~overflowed[c]
        /\ RemovedAndClosed(c)

\* a read failed and the unregister removed the client
C36_WitnessRead ==
    \E c \in Clients :
        /\ pcWrite[c] = "running"
        /\ pcRead[c] = "done"
        /\ ~overflowed[c]
        /\ RemovedAndClosed(c)
\* Run handled the register request of c at some moment
EverRegistered(c) == regAt[c] >= 0

\* the outbox of c was made and close(c.send) never ran
OutboxOpen(c) == closeCount[c] = 0

\* C37: in every state of the hub a client of the subscriber set has an open
\* outbox, a client that was registered and is out of the set has an outbox
\* closed exactly once, and a client never registered is not in the set; Run
\* never panics on a channel, and an envelope enters an outbox only while
\* the outbox is open, whatever the order of registers, unregisters,
\* overflow drops and publications.
C37_SetMatchesOutboxes ==
    /\ [](\A c \in clients : OutboxOpen(c))
    /\ [](\A c \in Clients \ clients : EverRegistered(c) => closeCount[c] = 1)
    /\ [](\A c \in Clients : ~EverRegistered(c) => c \notin clients /\ OutboxOpen(c))
    /\ [](~panicked)
    /\ [][\A c \in Clients :
            Len(send'[c]) > Len(send[c]) =>
                c \in clients /\ OutboxOpen(c) /\ closeCount'[c] = 0
         ]_vars

\* one client was dropped for overflow and its unregister handled after
\* that, the other is in the set with an envelope in its open outbox
C37_Witness ==
    \E c, d \in Clients :
        /\ overflowed[c] /\ pcRead[c] = "done" /\ c \notin clients
        /\ d \in clients /\ send[d] # <<>> /\ OutboxOpen(d)
\* Run handles the unregister request of c in this step
UnregisterHandled(c) == pcRead[c] = "unregistering" /\ pcRead'[c] = "done"

\* C38: the pumps of a client run only after Run has handled its register
\* request, which it does once; so Run handles an unregister request of a
\* client, and puts an envelope in its outbox, only after its registration,
\* and a client in the subscriber set always has a read pump that is running
\* or waits with its unregister request: no client whose pump has ended stays
\* in the set.
C38_RegisterFirst ==
    /\ [](\A c \in Clients :
            (pcRead[c] # "none" \/ pcWrite[c] # "none") =>
                EverRegistered(c) /\ pcHandle[c] = "done")
    /\ [][\A c \in Clients : UnregisterHandled(c) => EverRegistered(c)]_vars
    /\ [][\A c \in Clients :
            Len(send'[c]) > Len(send[c]) => EverRegistered(c)]_vars
    /\ [](\A c \in Clients : received[c] # <<>> => EverRegistered(c))
    /\ [][\A c \in Clients : EverRegistered(c) => regAt'[c] = regAt[c]]_vars
    /\ [](\A c \in clients : pcRead[c] \in {"reading", "unregistering"})

\* the read of a client failed before anything was delivered to it, its
\* unregister request was handled after its register request with no
\* envelope between the two, and the client is out of the set
C38_Witness ==
    \E c \in Clients :
        /\ EverRegistered(c)
        /\ remAt[c] = regAt[c]
        /\ pcRead[c] = "done"
        /\ ~overflowed[c]
        /\ received[c] = <<>> /\ send[c] = <<>>
        /\ c \notin clients
        /\ Len(processed) >= 1
\* the place on disk that DeleteFile hands to os.RemoveAll or os.Remove: the
\* sanitized path, a symbolic link at its end being removed itself
Deleted == ResolveNoFollow(fsPath, fsLinks)

\* C39 as stated: no DELETE request removes the base directory: for every
\* request path that is not empty and that sanitizePath accepts, what
\* DeleteFile removes lies strictly below the base directory.
C39_AsStated ==
    (fsPc = "done" /\ fsOp = "delete") =>
        Within(fsBase, Deleted) /\ Deleted # fsBase
====
